---- MODULE Spec2Model ----
(***************************************************************************)
(* Model of the gacha notation expander of image-gacha                     *)
(* (src/src/utils/gachaParser.ts): parseGachaPrompt ("expand") and         *)
(* previewGachaPrompt ("preview"), called on one prompt text.              *)
(*                                                                         *)
(* A JavaScript string is modelled as a sequence of one-character strings. *)
(***************************************************************************)
EXTENDS Integers, Sequences, FiniteSets, TLC

VARIABLES
    promptText,     \* the text both functions are called with
    previewResult,  \* what the last previewGachaPrompt(prompt) returned
    previewCalls,   \* the callback invocations of that call, with their locals
    parseResult,    \* what the last parseGachaPrompt(prompt) returned
    parseCalls,     \* the callback invocations of that call, with their locals
    randomCalls,    \* number of Math.random() calls made so far
    previewCount,   \* number of previewGachaPrompt calls made so far
    lastCall,       \* the function that was called last
    loop,           \* the scanning loop that is being run, one iteration a step
    history,        \* the image cards of the application, the newest first
    batchCount,     \* the text of the batch count field
    batchCalls,     \* parseGachaPrompt calls the last handleGenerate made
    currentProjectId,     \* the project whose images the application shows
    server,               \* the cards the server stores, for each project
    generatingImagesRef,  \* generatingImagesRef.current, a set of card ids
    generations,          \* the background generations started so far
    loads,                \* the loadImages runs that have not set the history
    effectDue       \* a dependency of the generation effect has changed

vars == <<promptText, previewResult, previewCalls, parseResult, parseCalls,
          randomCalls, previewCount, lastCall, loop, history, batchCount, batchCalls,
          currentProjectId, server, generatingImagesRef, generations, loads, effectDue>>

\* The state of the generation of the images of the cards
genVars == <<currentProjectId, server, generatingImagesRef, generations, loads, effectDue>>

\* The state of the application around the prompt text
appVars == <<history, batchCount, batchCalls, genVars>>

\* The projects of the server
Projects == {"default", "p1"}

\* No card is stored, no generation was started, nothing is being loaded
NothingGenerated ==
    /\ currentProjectId = "default"
    /\ server = [p \in Projects |-> <<>>]
    /\ generatingImagesRef = {}
    /\ generations = <<>>
    /\ loads = {}
    /\ effectDue = FALSE

----------------------------------------------------------------------------
(* Characters *)

LB == "{"
RB == "}"
LP == "("
RP == ")"
CM == ","
BS == "\\"
SQ == "'"
DQ == "\""
SP == " "
LF == "\n"
TAB == "\t"
CR == "\r"
FF == "\f"

\* The regular expression class \d
DigitChars == {"0", "1", "2", "3", "4", "5", "6", "7", "8", "9"}

\* The regular expression class \s (of the characters the model uses)
WhiteSpaceChars == {SP, TAB, LF, CR, FF}

QuoteChars == {SQ, DQ}
BraceChars == {LB, RB}

----------------------------------------------------------------------------
(* Array.prototype.join and String.prototype.slice *)

\* str.slice(from - 1, to) with 1-based inclusive bounds; empty when to < from
Slice(str, from, to) ==
    IF to < from THEN <<>> ELSE SubSeq(str, from, to)

RECURSIVE JoinFrom(_, _, _)

\* Mutant: a separator is appended after every item, the last one included
JoinFromTrailing(arr, sep, k) ==
    IF k > Len(arr) THEN <<>>
    ELSE arr[k] \o sep \o JoinFrom(arr, sep, k + 1)

JoinFrom(arr, sep, k) ==
    IF k > Len(arr) THEN <<>>
    ELSE IF k = Len(arr) THEN arr[k]
    ELSE arr[k] \o sep \o JoinFrom(arr, sep, k + 1)

\* Array.prototype.join(sep)
Join(arr, sep) == JoinFrom(arr, sep, 1)

----------------------------------------------------------------------------
(* unescapeString *)

\* Mutant: an invalid escape loses its backslash
RECURSIVE UnescapeFromDropsInvalid(_, _, _)
UnescapeFromDropsInvalid(str, allowedEscapes, i) ==
    IF i > Len(str) THEN <<>>
    ELSE IF str[i] = BS /\ i + 1 <= Len(str)
    THEN IF str[i + 1] = BS THEN <<BS>> \o UnescapeFromDropsInvalid(str, allowedEscapes, i + 2)
         ELSE IF str[i + 1] = "n" THEN <<LF>> \o UnescapeFromDropsInvalid(str, allowedEscapes, i + 2)
         ELSE IF str[i + 1] = "t" THEN <<TAB>> \o UnescapeFromDropsInvalid(str, allowedEscapes, i + 2)
         ELSE IF str[i + 1] = "r" THEN <<CR>> \o UnescapeFromDropsInvalid(str, allowedEscapes, i + 2)
         ELSE IF str[i + 1] \in allowedEscapes
         THEN <<str[i + 1]>> \o UnescapeFromDropsInvalid(str, allowedEscapes, i + 2)
         ELSE UnescapeFromDropsInvalid(str, allowedEscapes, i + 1)
    ELSE <<str[i]>> \o UnescapeFromDropsInvalid(str, allowedEscapes, i + 1)

RECURSIVE UnescapeFrom(_, _, _)
UnescapeFrom(str, allowedEscapes, i) ==
    IF i > Len(str) THEN <<>>
    ELSE IF str[i] = BS /\ i + 1 <= Len(str)
    THEN LET nextChar == str[i + 1] IN
         IF nextChar = BS THEN <<BS>> \o UnescapeFrom(str, allowedEscapes, i + 2)
         ELSE IF nextChar = "n" THEN <<LF>> \o UnescapeFrom(str, allowedEscapes, i + 2)
         ELSE IF nextChar = "t" THEN <<TAB>> \o UnescapeFrom(str, allowedEscapes, i + 2)
         ELSE IF nextChar = "r" THEN <<CR>> \o UnescapeFrom(str, allowedEscapes, i + 2)
         ELSE IF nextChar \in allowedEscapes
              THEN <<nextChar>> \o UnescapeFrom(str, allowedEscapes, i + 2)
         ELSE <<str[i]>> \o UnescapeFrom(str, allowedEscapes, i + 1)
    ELSE <<str[i]>> \o UnescapeFrom(str, allowedEscapes, i + 1)

unescapeString(str, allowedEscapes) == UnescapeFrom(str, allowedEscapes, 1)

ItemEscapes == {LB, RB, CM}
SeparatorEscapes == {LP, RP, SQ, DQ}

----------------------------------------------------------------------------
(* gachaPattern:                                                           *)
(*   \{\{((?:[^{}]|\\\{|\\\})*?)\}\}\((\d+)(?:,\s*['"]((?:[^'"]|\\'|\\")*?)['"])?\) *)
(* matched with the backtracking order of the regular expression engine.   *)

NoMatch == [ok |-> FALSE]

At(str, p) == IF p >= 1 /\ p <= Len(str) THEN str[p] ELSE "<end>"

\* \d+ (greedy): the position after the longest run of digits from p.  Giving
\* a digit back never helps, what follows must be `,` or `)`.
RECURSIVE DigitsEnd(_, _)
DigitsEnd(str, p) ==
    IF At(str, p) \in DigitChars THEN DigitsEnd(str, p + 1) ELSE p

\* \s* (greedy): the position after the longest run of white space from p.
\* Giving a white space character back never helps, what follows is a quote.
RECURSIVE SpacesEnd(_, _)
SpacesEnd(str, p) ==
    IF At(str, p) \in WhiteSpaceChars THEN SpacesEnd(str, p + 1) ELSE p

\* ((?:[^'"]|\\'|\\")*?)['"]\) from p, the body having started at b.
\* Lazy: first try to leave the loop, then [^'"], then \\' or \\".
RECURSIVE MatchSeparator(_, _, _)

SeparatorAlternatives(str, b, p, viaAny) ==
    IF viaAny.ok THEN viaAny
    ELSE IF str[p] = BS /\ At(str, p + 1) \in QuoteChars
    THEN MatchSeparator(str, b, p + 2)
    ELSE NoMatch

MatchSeparator(str, b, p) ==
    IF At(str, p) \in QuoteChars /\ At(str, p + 1) = RP
    THEN [ok |-> TRUE, separator |-> Slice(str, b, p - 1), end |-> p + 2]
    ELSE IF p > Len(str) THEN NoMatch
    ELSE SeparatorAlternatives(str, b, p,
             IF str[p] \notin QuoteChars THEN MatchSeparator(str, b, p + 1) ELSE NoMatch)

\* (?:,\s*['"]((?:[^'"]|\\'|\\")*?)['"])?\) with the optional group taking
\* part: d is the position after the digits, q the one after ,\s*
MatchGroup(str, d, q) ==
    IF At(str, d) = CM /\ At(str, q) \in QuoteChars
    THEN MatchSeparator(str, q + 1, q + 1) ELSE NoMatch

\* The optional group is greedy: the pattern goes on without it only when
\* it cannot take part.  separator is undefined (hasSeparator = FALSE) then.
TailResult(str, p, d, group) ==
    IF group.ok
    THEN [ok |-> TRUE, countStr |-> Slice(str, p + 3, d - 1),
          hasSeparator |-> TRUE, separator |-> group.separator, end |-> group.end]
    ELSE IF At(str, d) = RP
    THEN [ok |-> TRUE, countStr |-> Slice(str, p + 3, d - 1),
          hasSeparator |-> FALSE, separator |-> <<>>, end |-> d + 1]
    ELSE NoMatch

TailAfterDigits(str, p, d) ==
    TailResult(str, p, d, MatchGroup(str, d, SpacesEnd(str, d + 1)))

\* Mutant: the count may be empty, (\d*)
MatchTailAnyCount(str, p) ==
    IF At(str, p) = RB /\ At(str, p + 1) = RB /\ At(str, p + 2) = LP
    THEN TailAfterDigits(str, p, DigitsEnd(str, p + 3))
    ELSE NoMatch

\* \}\}\((\d+)(?:,\s*['"]((?:[^'"]|\\'|\\")*?)['"])?\) from p.
\* `end` is the position after the match.
MatchTail(str, p) ==
    IF At(str, p) = RB /\ At(str, p + 1) = RB /\ At(str, p + 2) = LP
       /\ At(str, p + 3) \in DigitChars
    THEN TailAfterDigits(str, p, DigitsEnd(str, p + 3))
    ELSE NoMatch

\* ((?:[^{}]|\\\{|\\\})*?) followed by the rest of the pattern, from p, the
\* content having started at c.  Lazy: first try to leave the loop (tail),
\* then [^{}] (viaAny), then \\\{ or \\\}.
RECURSIVE MatchContent(_, _, _)

ContentAlternatives(str, c, p, viaAny) ==
    IF viaAny.ok THEN viaAny
    ELSE IF str[p] = BS /\ At(str, p + 1) \in BraceChars
    THEN MatchContent(str, c, p + 2)
    ELSE NoMatch

\* Mutant: the class [^}] for [^{}], an opening brace is content
ContentLoopOpenBrace(str, c, p, tail) ==
    IF tail.ok
    THEN [ok |-> TRUE, content |-> Slice(str, c, p - 1), countStr |-> tail.countStr,
          hasSeparator |-> tail.hasSeparator, separator |-> tail.separator,
          end |-> tail.end]
    ELSE IF p > Len(str) THEN NoMatch
    ELSE ContentAlternatives(str, c, p,
             IF str[p] # RB THEN MatchContent(str, c, p + 1) ELSE NoMatch)

ContentLoop(str, c, p, tail) ==
    IF tail.ok
    THEN [ok |-> TRUE, content |-> Slice(str, c, p - 1), countStr |-> tail.countStr,
          hasSeparator |-> tail.hasSeparator, separator |-> tail.separator,
          end |-> tail.end]
    ELSE IF p > Len(str) THEN NoMatch
    ELSE ContentAlternatives(str, c, p,
             IF str[p] \notin BraceChars THEN MatchContent(str, c, p + 1) ELSE NoMatch)

MatchContent(str, c, p) == ContentLoop(str, c, p, MatchTail(str, p))

MatchResult(str, s, m) ==
    IF m.ok
    THEN [ok |-> TRUE, start |-> s, end |-> m.end,
          match |-> Slice(str, s, m.end - 1), content |-> m.content,
          countStr |-> m.countStr, hasSeparator |-> m.hasSeparator,
          separator |-> m.separator]
    ELSE NoMatch

\* One attempt of gachaPattern at position s
MatchAt(str, s) ==
    IF At(str, s) = LB /\ At(str, s + 1) = LB
    THEN MatchResult(str, s, MatchContent(str, s + 2, s + 2))
    ELSE NoMatch

\* The matches String.prototype.replace finds with the global pattern: the
\* leftmost match from p, then the search resumes where that match ended.
RECURSIVE MatchesFrom(_, _)

\* Mutant: the pattern without the g flag, only the first match is replaced
MatchesStepFirstOnly(str, p, m) ==
    IF m.ok THEN <<m>> ELSE MatchesFrom(str, p + 1)

MatchesStep(str, p, m) ==
    IF m.ok THEN <<m>> \o MatchesFrom(str, m.end)
    ELSE MatchesFrom(str, p + 1)

MatchesFrom(str, p) ==
    IF p > Len(str) THEN <<>> ELSE MatchesStep(str, p, MatchAt(str, p))

gachaPattern(str) == MatchesFrom(str, 1)

----------------------------------------------------------------------------
(* The replace callbacks *)

\* parseInt(countStr, 10) of a string of digits
DigitValue(ch) ==
    CASE ch = "0" -> 0 [] ch = "1" -> 1 [] ch = "2" -> 2 [] ch = "3" -> 3
      [] ch = "4" -> 4 [] ch = "5" -> 5 [] ch = "6" -> 6 [] ch = "7" -> 7
      [] ch = "8" -> 8 [] ch = "9" -> 9

RECURSIVE ParseIntFrom(_, _, _)
ParseIntFrom(countStr, k, acc) ==
    IF k > Len(countStr) THEN acc
    ELSE ParseIntFrom(countStr, k + 1, acc * 10 + DigitValue(countStr[k]))

parseInt(countStr) == ParseIntFrom(countStr, 1, 0)

Min(a, b) == IF a < b THEN a ELSE b

\* Mutant: the separator is tested for truth, an empty one gives the default
joinSeparatorTruthy(m) ==
    IF m.hasSeparator /\ Len(m.separator) > 0
    THEN unescapeString(m.separator, SeparatorEscapes) ELSE <<SP>>

\* separator !== undefined ? unescapeString(separator, ['(', ')', "'", '"']) : ' '
joinSeparator(m) ==
    IF m.hasSeparator THEN unescapeString(m.separator, SeparatorEscapes) ELSE <<SP>>

\* The splitting loop of parseGachaPrompt: the raw items, then the last one
RECURSIVE ParseSplitFrom(_, _, _, _)
ParseSplitFrom(content, i, items, currentItem) ==
    IF i > Len(content)
    THEN IF Len(currentItem) > 0 THEN Append(items, currentItem) ELSE items
    ELSE IF content[i] = BS /\ i + 1 <= Len(content)
    THEN LET nextChar == content[i + 1] IN
         IF nextChar = CM \/ nextChar = LB \/ nextChar = RB
         THEN ParseSplitFrom(content, i + 2, items, Append(currentItem, nextChar))
         ELSE ParseSplitFrom(content, i + 1, items, Append(currentItem, content[i]))
    ELSE IF content[i] = CM
    THEN ParseSplitFrom(content, i + 1, Append(items, currentItem), <<>>)
    ELSE ParseSplitFrom(content, i + 1, items, Append(currentItem, content[i]))

ParseSplit(content) == ParseSplitFrom(content, 1, <<>>, <<>>)

\* The splitting loop of previewGachaPrompt
RECURSIVE PreviewSplitFrom(_, _, _, _)
PreviewSplitFrom(content, i, items, currentItem) ==
    IF i > Len(content)
    THEN IF Len(currentItem) > 0 THEN Append(items, currentItem) ELSE items
    ELSE IF content[i] = BS /\ i + 1 <= Len(content)
    THEN LET nextChar == content[i + 1] IN
         IF nextChar = CM \/ nextChar = LB \/ nextChar = RB
         THEN PreviewSplitFrom(content, i + 2, items, Append(currentItem, nextChar))
         ELSE IF nextChar = BS \/ nextChar = "n" \/ nextChar = "t" \/ nextChar = "r"
         THEN PreviewSplitFrom(content, i + 2, items,
                               currentItem \o <<content[i], nextChar>>)
         ELSE PreviewSplitFrom(content, i + 1, items, Append(currentItem, content[i]))
    ELSE IF content[i] = CM
    THEN PreviewSplitFrom(content, i + 1, Append(items, currentItem), <<>>)
    ELSE PreviewSplitFrom(content, i + 1, items, Append(currentItem, content[i]))

PreviewSplit(content) == PreviewSplitFrom(content, 1, <<>>, <<>>)

\* item.replace(/^[\s\t\n\r]+|[\s\t\n\r]+$/g, '')
RECURSIVE TrimStart(_)
TrimStart(item) ==
    IF Len(item) > 0 /\ item[1] \in WhiteSpaceChars THEN TrimStart(Tail(item)) ELSE item

\* Mutant: [\s\t\n\r]$ without the +, one character is removed at the end
TrimEndOne(item) ==
    IF Len(item) > 0 /\ item[Len(item)] \in WhiteSpaceChars
    THEN SubSeq(item, 1, Len(item) - 1) ELSE item

RECURSIVE TrimEnd(_)
TrimEnd(item) ==
    IF Len(item) > 0 /\ item[Len(item)] \in WhiteSpaceChars
    THEN TrimEnd(SubSeq(item, 1, Len(item) - 1)) ELSE item

\* Mutant: the pattern without its second alternative, the end is not trimmed
TrimLeading(item) == TrimStart(item)

Trim(item) == TrimEnd(TrimStart(item))

\* Mutant: the items are unescaped first and trimmed then
RECURSIVE ProcessItemsFromUnescapeFirst(_, _)
ProcessItemsFromUnescapeFirst(items, k) ==
    IF k > Len(items) THEN <<>>
    ELSE (IF Len(Trim(unescapeString(items[k], ItemEscapes))) > 0
          THEN <<Trim(unescapeString(items[k], ItemEscapes))>> ELSE <<>>)
         \o ProcessItemsFromUnescapeFirst(items, k + 1)

\* items.map(trim, then unescapeString(trimmed, ['{', '}', ','])).filter(length > 0)
RECURSIVE ProcessItemsFrom(_, _)
ProcessItemsFrom(items, k) ==
    IF k > Len(items) THEN <<>>
    ELSE LET item == unescapeString(Trim(items[k]), ItemEscapes) IN
         (IF Len(item) > 0 THEN <<item>> ELSE <<>>) \o ProcessItemsFrom(items, k + 1)

processedItems(items) == ProcessItemsFrom(items, 1)

----------------------------------------------------------------------------
(* shuffleArray and selectRandomItems.  draws[i] is the value of           *)
(* Math.floor(Math.random() * (i + 1)) in the iteration with index i.      *)

\* Mutant: the swap loses shuffled[i], shuffled[i] = shuffled[j] alone
SwapLost(arr, a, b) == [arr EXCEPT ![a] = arr[b]]

\* [shuffled[i], shuffled[j]] = [shuffled[j], shuffled[i]]
Swap(arr, a, b) == [arr EXCEPT ![a] = arr[b], ![b] = arr[a]]

\* Mutant: the loop ends at i > 1, the first item is never swapped
RECURSIVE ShuffleFromSkipsFirst(_, _, _)
ShuffleFromSkipsFirst(shuffled, draws, i) ==
    IF i > 1
    THEN ShuffleFromSkipsFirst(Swap(shuffled, i + 1, draws[i] + 1), draws, i - 1)
    ELSE shuffled

\* The loop of shuffleArray, i being the 0-based index of the source
RECURSIVE ShuffleFrom(_, _, _)
ShuffleFrom(shuffled, draws, i) ==
    IF i > 0
    THEN ShuffleFrom(Swap(shuffled, i + 1, draws[i] + 1), draws, i - 1)
    ELSE shuffled

shuffleArray(array, draws) == ShuffleFrom(array, draws, Len(array) - 1)

\* Mutant: the slice ends one item early
selectRandomItemsShort(items, count, draws) ==
    Slice(shuffleArray(items, draws), 1, count - 1)

selectRandomItems(items, count, draws) ==
    IF count >= Len(items)
    THEN shuffleArray(items, draws)
    ELSE Slice(shuffleArray(items, draws), 1, count)

\* The draws one shuffle of n items takes: one in 0..i for i = n-1 down to 1
ShuffleDraws(n) == {d \in [1 .. n - 1 -> 0 .. n - 1] : \A i \in 1 .. n - 1 : d[i] <= i}

----------------------------------------------------------------------------
(* The callbacks given to prompt.replace(gachaPattern, ...) and the result *)
(* of replace.  A callback invocation is recorded with its locals.         *)

\* What both callbacks compute before they select: count, joinSeparator and
\* processedItems (items is what the splitting loop of the function gave)
CallbackLocals(m, items) ==
    [match |-> m.match, start |-> m.start, end |-> m.end, content |-> m.content,
     count |-> parseInt(m.countStr), hasSeparator |-> m.hasSeparator,
     separator |-> m.separator, joinSeparator |-> joinSeparator(m),
     processedItems |-> processedItems(items)]

\* Mutant: an empty selection returns the match as an empty candidate list does
CallbackReturnKeepsMatch(loc, selected) ==
    [match |-> loc.match, start |-> loc.start, end |-> loc.end,
     content |-> loc.content, count |-> loc.count,
     hasSeparator |-> loc.hasSeparator, separator |-> loc.separator,
     joinSeparator |-> loc.joinSeparator, processedItems |-> loc.processedItems,
     selected |-> IF Len(loc.processedItems) = 0 THEN <<>> ELSE selected,
     out |-> IF Len(loc.processedItems) = 0 \/ Len(selected) = 0 THEN loc.match
             ELSE Join(selected, loc.joinSeparator)]

\* Mutant: no early return for an empty candidate list
CallbackReturnNoFallback(loc, selected) ==
    [match |-> loc.match, start |-> loc.start, end |-> loc.end,
     content |-> loc.content, count |-> loc.count,
     hasSeparator |-> loc.hasSeparator, separator |-> loc.separator,
     joinSeparator |-> loc.joinSeparator, processedItems |-> loc.processedItems,
     selected |-> IF Len(loc.processedItems) = 0 THEN <<>> ELSE selected,
     out |-> IF Len(loc.processedItems) = 0 THEN <<>>
             ELSE Join(selected, loc.joinSeparator)]

\* if (processedItems.length === 0) return match; return selected.join(joinSeparator)
CallbackReturn(loc, selected) ==
    [match |-> loc.match, start |-> loc.start, end |-> loc.end,
     content |-> loc.content, count |-> loc.count,
     hasSeparator |-> loc.hasSeparator, separator |-> loc.separator,
     joinSeparator |-> loc.joinSeparator, processedItems |-> loc.processedItems,
     selected |-> IF Len(loc.processedItems) = 0 THEN <<>> ELSE selected,
     out |-> IF Len(loc.processedItems) = 0 THEN loc.match
             ELSE Join(selected, loc.joinSeparator)]

ParseLocals(m) == CallbackLocals(m, ParseSplit(m.content))
PreviewLocals(m) == CallbackLocals(m, PreviewSplit(m.content))

\* const selected = selectRandomItems(processedItems, Math.min(count, processedItems.length))
ParseSelect(loc, draws) ==
    CallbackReturn(loc, selectRandomItems(loc.processedItems,
                            Min(loc.count, Len(loc.processedItems)), draws))

\* Mutant: the preview selects as parseGachaPrompt does, its draws taken
\* from the state of the random source
PreviewSelectRandom(loc) ==
    CallbackReturn(loc, selectRandomItems(loc.processedItems,
        Min(loc.count, Len(loc.processedItems)),
        [i \in 1 .. Len(loc.processedItems) - 1 |-> randomCalls % (i + 1)]))

\* Mutant: the preview takes the last items, slice(-count)
PreviewSelectLast(loc) ==
    CallbackReturn(loc, Slice(loc.processedItems,
        Len(loc.processedItems) - Min(loc.count, Len(loc.processedItems)) + 1,
        Len(loc.processedItems)))

\* const selected = processedItems.slice(0, Math.min(count, processedItems.length))
PreviewSelect(loc) ==
    CallbackReturn(loc, Slice(loc.processedItems, 1,
                              Min(loc.count, Len(loc.processedItems))))

\* The callback of parseGachaPrompt for the match m
ParseCallback(m, draws) == ParseSelect(ParseLocals(m), draws)

\* The callback of previewGachaPrompt for the match m
PreviewCallback(m) == PreviewSelect(PreviewLocals(m))

\* Mutant: what a callback returned is scanned again, a token in it is removed
RECURSIVE ReplaceFromRescan(_, _, _, _)
ReplaceFromRescan(str, calls, k, p) ==
    IF k > Len(calls) THEN Slice(str, p, Len(str))
    ELSE Slice(str, p, calls[k].start - 1)
         \o (IF Len(gachaPattern(calls[k].out)) > 0
             THEN Slice(calls[k].out, 1, gachaPattern(calls[k].out)[1].start - 1)
                  \o Slice(calls[k].out, gachaPattern(calls[k].out)[1].end,
                           Len(calls[k].out))
             ELSE calls[k].out)
         \o ReplaceFromRescan(str, calls, k + 1, calls[k].end)

\* String.prototype.replace: the text between the matches is copied, each
\* match is replaced by what the callback returned for it.
RECURSIVE ReplaceFrom(_, _, _, _)
ReplaceFrom(str, calls, k, p) ==
    IF k > Len(calls) THEN Slice(str, p, Len(str))
    ELSE Slice(str, p, calls[k].start - 1) \o calls[k].out
         \o ReplaceFrom(str, calls, k + 1, calls[k].end)

Replace(str, calls) == ReplaceFrom(str, calls, 1, 1)

\* The callback invocations of one parseGachaPrompt call; draws[k] are the
\* draws of the shuffle of the k-th match
ParseCallsOf(matches, draws) ==
    [k \in 1 .. Len(matches) |-> ParseCallback(matches[k], draws[k])]

parseGachaPrompt(prompt, draws) ==
    Replace(prompt, ParseCallsOf(gachaPattern(prompt), draws))

PreviewCallsOf(matches) ==
    [k \in 1 .. Len(matches) |-> PreviewCallback(matches[k])]

previewGachaPrompt(prompt) ==
    Replace(prompt, PreviewCallsOf(gachaPattern(prompt)))

\* Number of candidates of each match, as parseGachaPrompt sees them
CandidateCounts(matches) ==
    [k \in 1 .. Len(matches) |-> Len(ParseLocals(matches[k]).processedItems)]

\* The draws one parseGachaPrompt call can take: for each match with
\* candidates, the draws of one shuffle of them
RECURSIVE DrawsOf(_, _)
DrawsOf(counts, k) ==
    IF k > Len(counts) THEN {<<>>}
    ELSE {<<d>> \o rest : d \in ShuffleDraws(counts[k]), rest \in DrawsOf(counts, k + 1)}

\* Math.random() calls of one parseGachaPrompt call
RECURSIVE RandomCallsOf(_, _)
RandomCallsOf(counts, k) ==
    IF k > Len(counts) THEN 0
    ELSE (IF counts[k] > 0 THEN counts[k] - 1 ELSE 0) + RandomCallsOf(counts, k + 1)

----------------------------------------------------------------------------
(* The prompts the functions are called with *)

MaxItems == 3        \* raw items written in the content of a token
MaxCount == 3        \* largest count written in a token
MaxRandomCalls == 4  \* parseGachaPrompt is called while fewer draws were made
MaxPreviewCalls == 2 \* previewGachaPrompt is called at most so many times

\* Raw items a content is written with
RawItems == {<<"a">>, <<"b">>, <<>>}

\* The raw items joined by commas: what the author writes between {{ and }}
RECURSIVE ContentsOf(_)
ContentsOf(n) ==
    IF n = 1 THEN RawItems
    ELSE ContentsOf(n - 1) \cup
         {c \o <<CM>> \o item : c \in ContentsOf(n - 1), item \in RawItems}

\* Contents with white space, line breaks and escapes
SpecialContents ==
    { <<SP>>, <<SP, CM, LF>>, <<LF, SP, "a", CM, LF, "b", SP, CM, LF>>,
      <<"a", SP, "b", CM, "a">>, <<BS, LB, "a", BS, RB, CM, "b">>,
      <<"a", BS, CM, "b", CM, "b">>, <<BS, "n", CM, "a">> }

Contents == ContentsOf(MaxItems) \cup SpecialContents

CountStrs == {<<ch>> : ch \in {"0", "1", "2", "3", "4", "5", "6", "7", "8", "9"}}

\* The counts 0 .. MaxCount as written, and one with two digits
Counts == {c \in CountStrs : parseInt(c) <= MaxCount} \cup {<<"1", "0">>}

\* What is written after the count: nothing, or a comma and a quoted separator
SeparatorTexts ==
    { <<>>,
      <<CM, SP, DQ, CM, SP, DQ>>,             \* , ", "
      <<CM, DQ, DQ>>,                         \* ,""
      <<CM, SQ, BS, "n", SQ>>,                \* ,'\n'
      <<CM, SP, DQ, BS, RP, BS, DQ, "n", DQ>> \* , "\)\"n"
    }

Token(content, count, sepText) ==
    <<LB, LB>> \o content \o <<RB, RB, LP>> \o count \o sepText \o <<RP>>

Tokens == {Token(c, n, s) : c \in Contents, n \in Counts, s \in SeparatorTexts}

\* Texts in which the full grammar does not occur
Malformed ==
    { <<>>,
      <<"a", CM, "b">>,
      <<LB, LB, "a", CM, "b", RB, RB>>,                              \* {{a,b}}
      <<LB, LB, "a", CM, "b", RB, RB, LP, RP>>,                      \* {{a,b}}()
      <<LB, LB, "a", CM, "b", RB, RB, LP, "x", RP>>,                 \* {{a,b}}(x)
      <<LB, LB, "a", CM, "b", RB, RB, LP, "2", CM, SP, "-", RP>>,    \* {{a,b}}(2, -)
      <<LB, LB, "a", CM, "b", RB, RB, LP, "2", CM, DQ, "-", RP>>,    \* {{a,b}}(2,"-)
      <<LB, LB, "a", CM, "b", RB, RB, SP, LP, "1", RP>>,             \* {{a,b}} (1)
      <<LB, LB, "a", CM, "b", RB, RB, LP, "1">>,                     \* {{a,b}}(1
      <<LB, LB, "a", CM, "b", RB, LP, "1", RP>>,                     \* {{a,b}(1)
      <<LB, "a", CM, "b", RB, RB, LP, "1", RP>>,                     \* {a,b}}(1)
      <<LB, LB, "a", LB, "b", RB, RB, LP, "1", RP>>,                 \* {{a{b}}(1)
      <<LB, LB, "a", RB, "b", RB, RB, LP, "1", RP>>                  \* {{a}b}}(1)
    }

\* Texts around a token: plain text, a malformed block, another token
Prefixes ==
    { <<"x", SP>>, <<LB, LB, "a", RB, RB>>, <<LB, LB, "a", RB, RB, LP, "1", CM, SQ>>,
      <<LB, LB, "b", CM, "a", RB, RB, LP, "1", RP, SP>> }

Suffixes ==
    { <<SP, "y">>, <<LP, "1", RP>>, <<LB, LB, "a", CM, "b", RB, RB, LP, "2", RP>> }

\* Tokens written in the middle of other text
InnerTokens ==
    {Token(c, n, s) : c \in ContentsOf(2), n \in {<<"0">>, <<"1">>, <<"2">>},
                      s \in {<<>>, <<CM, SP, DQ, CM, SP, DQ>>, <<CM, SP, DQ, RP, DQ>>}}

\* The examples of the module comment and of the README
Examples ==
    { <<LB, LB, "a", CM, "b", CM, "c", RB, RB, LP, "2", CM, SP, DQ, CM, SP, DQ, RP>>,
      <<LB, LB, "a", CM, "b", CM, "c", RB, RB, LP, "2", RP>>,
      <<LB, LB, "a", CM, "b", RB, RB, LP, "2", CM, SP, DQ, CM, SP, DQ, RP>> }

Prompts ==
    Tokens \cup Malformed \cup Examples
    \cup {p \o t : p \in Prefixes, t \in InnerTokens}
    \cup {t \o q : t \in InnerTokens, q \in Suffixes}

----------------------------------------------------------------------------
(* The calls *)

\* The value of a result before the function was called
NotCalled == <<"not called">>

\* No scanning loop is being run
Idle == [fn |-> "none"]

Init ==
    /\ promptText \in Prompts
    /\ previewResult = NotCalled
    /\ previewCalls = <<>>
    /\ parseResult = NotCalled
    /\ parseCalls = <<>>
    /\ randomCalls = 0
    /\ previewCount = 0
    /\ lastCall = "none"
    /\ loop = Idle
    /\ history = <<>>
    /\ batchCount = <<"1">>
    /\ batchCalls = 0
    /\ NothingGenerated

\* previewGachaPrompt(promptText)
PreviewReturns(calls) ==
    /\ previewResult' = Replace(promptText, calls)
    /\ previewCalls' = calls
    /\ previewCount' = previewCount + 1
    /\ lastCall' = "preview"
    /\ UNCHANGED <<promptText, parseResult, parseCalls, randomCalls, loop, appVars>>

PreviewCall ==
    /\ previewCount < MaxPreviewCalls
    /\ PreviewReturns(PreviewCallsOf(gachaPattern(promptText)))

\* parseGachaPrompt(promptText), the shuffles drawing from Math.random()
ParseReturns(calls, drawn) ==
    /\ parseResult' = Replace(promptText, calls)
    /\ parseCalls' = calls
    /\ randomCalls' = randomCalls + drawn
    /\ lastCall' = "parse"
    /\ UNCHANGED <<promptText, previewResult, previewCalls, previewCount, loop, appVars>>

ParseDraws(matches, counts) ==
    \E draws \in DrawsOf(counts, 1) :
        ParseReturns(ParseCallsOf(matches, draws), RandomCallsOf(counts, 1))

ParseMatches(matches) == ParseDraws(matches, CandidateCounts(matches))

ParseCall ==
    /\ randomCalls < MaxRandomCalls
    /\ ParseMatches(gachaPattern(promptText))

Next == PreviewCall \/ ParseCall

Spec == Init /\ [][Next]_vars

----------------------------------------------------------------------------
(* Prompts written with escapes: every content and every quoted separator  *)
(* over a few characters, up to a length                                   *)

MaxContentLen == 4    \* characters between {{ and }}
MaxSeparatorLen == 2  \* characters between the quotes of a separator

\* The strings of at most n characters
RECURSIVE StringsOf(_, _)
StringsOf(chars, n) ==
    IF n = 0 THEN {<<>>}
    ELSE StringsOf(chars, n - 1)
         \cup {s \o <<ch>> : s \in StringsOf(chars, n - 1), ch \in chars}

\* Characters of a content: a letter, the n of \n, backslash, comma, braces, line feed
ContentChars == {"a", "n", BS, CM, LB, RB, LF}

\* Characters of a separator body: a letter, backslash, the quotes
SeparatorChars == {"-", BS, SQ, DQ}

EscapeTokens ==
    {Token(c, <<"2">>, <<>>) : c \in StringsOf(ContentChars, MaxContentLen)}

QuotedTokens ==
    {Token(<<"a", CM, "n">>, <<"2">>, <<CM, open>> \o body \o <<close>>) :
        open \in QuoteChars, close \in QuoteChars,
        body \in StringsOf(SeparatorChars, MaxSeparatorLen)}

\* A backslash written before a token
BackslashTokens ==
    {<<BS>> \o Token(c, <<"2">>, <<>>) : c \in StringsOf({"a", CM, BS}, 2)}

MaxItemLen == 2       \* characters of an item the author means

\* The items an author means: no white space, no empty item
IntendedItems == StringsOf({"a", BS, CM, LB, RB}, MaxItemLen) \ {<<>>}

\* One item or two
IntendedLists ==
    {<<x>> : x \in IntendedItems} \cup {<<x, y>> : x \in IntendedItems, y \in IntendedItems}

\* An item as the module comment and the README tell to write it: backslash
\* as \\, comma as \, and the braces as \{ and \}
RECURSIVE EscapeItem(_)
EscapeItem(item) ==
    IF Len(item) = 0 THEN <<>>
    ELSE (IF Head(item) \in {BS, CM, LB, RB} THEN <<BS, Head(item)>> ELSE <<Head(item)>>)
         \o EscapeItem(Tail(item))

\* The token written for the items: {{item,item}}(2)
Written(items) ==
    Token(Join([k \in 1 .. Len(items) |-> EscapeItem(items[k])], <<CM>>), <<"2">>, <<>>)

WrittenTokens == {Written(items) : items \in IntendedLists}

EscapePrompts == EscapeTokens \cup QuotedTokens \cup BackslashTokens \cup WrittenTokens

InitEscapes ==
    /\ promptText \in EscapePrompts
    /\ previewResult = NotCalled
    /\ previewCalls = <<>>
    /\ parseResult = NotCalled
    /\ parseCalls = <<>>
    /\ randomCalls = 0
    /\ previewCount = 0
    /\ lastCall = "none"
    /\ loop = Idle
    /\ history = <<>>
    /\ batchCount = <<"1">>
    /\ batchCalls = 0
    /\ NothingGenerated

\* The same calls, made on the prompts written with escapes
SpecEscapes == InitEscapes /\ [][Next]_vars

----------------------------------------------------------------------------
(* Prompts written over several lines: white space around the items, and   *)
(* empty items                                                             *)

MaxPad == 2   \* white space characters written before or after an item

\* White space written around an item: spaces, tabs, line breaks
Pads == StringsOf({SP, LF}, MaxPad) \cup {<<TAB>>, <<CR, LF>>}

\* The items a and b written with white space before and after each, alone
\* or with an empty item: after a trailing comma, before a leading comma,
\* between two commas
LayoutsOf(first, second, after) ==
    { first \o <<CM>> \o second,
      first \o <<CM>> \o second \o <<CM>>,
      first \o <<CM>> \o second \o <<CM>> \o after,
      <<CM>> \o first \o <<CM>> \o second,
      first \o <<CM>> \o after \o <<CM>> \o second }

LayoutContents ==
    UNION {LayoutsOf(before \o <<"a">> \o after, before \o <<"b">> \o after, after) :
               before \in Pads, after \in Pads}

\* The multi-line example of the module comment and of the help dialog, and
\* the form on one line
MultiLineExample ==
    <<LB, LB, LF, "A", "A", "A", CM, LF, "B", "B", "B", CM, LF, "C", "C", "C", LF,
      RB, RB, LP, "2", RP>>

HelpDialogExample ==
    <<LB, LB, LF, SP, SP, SP, "A", "A", "A", CM, LF, SP, SP, SP, "B", "B", "B", CM,
      LF, SP, SP, SP, "C", "C", "C", LF, RB, RB, LP, "2", RP>>

SingleLineExample ==
    <<LB, LB, "A", "A", "A", CM, "B", "B", "B", CM, "C", "C", "C", RB, RB, LP, "2", RP>>

LayoutPrompts ==
    {Token(c, <<"2">>, <<>>) : c \in LayoutContents}
    \cup {MultiLineExample, HelpDialogExample, SingleLineExample}

InitLayout ==
    /\ promptText \in LayoutPrompts
    /\ previewResult = NotCalled
    /\ previewCalls = <<>>
    /\ parseResult = NotCalled
    /\ parseCalls = <<>>
    /\ randomCalls = 0
    /\ previewCount = 0
    /\ lastCall = "none"
    /\ loop = Idle
    /\ history = <<>>
    /\ batchCount = <<"1">>
    /\ batchCalls = 0
    /\ NothingGenerated

\* The same calls, made on the prompts written over several lines
SpecLayout == InitLayout /\ [][Next]_vars

----------------------------------------------------------------------------
(* The scanning loops, one iteration a step: the loop of unescapeString    *)
(* and the splitting loops of the two callbacks.  loop.i is the index i of *)
(* the code, which counts from 0: str[i] of the code is loop.str[i + 1].   *)

MaxScanLen == 3   \* characters of the contents the loops are run on

\* The locals when the loop is entered
Entered(fn, str, allowedEscapes) ==
    [fn |-> fn, str |-> str, allowedEscapes |-> allowedEscapes, i |-> 0,
     result |-> <<>>, items |-> <<>>, currentItem |-> <<>>, returned |-> FALSE]

\* Mutant: the branch of an invalid escape does not advance
UnescapeBodyStuck(l) ==
    IF l.str[l.i + 1] = BS /\ l.i + 1 < Len(l.str)
    THEN IF l.str[l.i + 2] = BS
         THEN [l EXCEPT !.result = Append(@, BS), !.i = @ + 2]
         ELSE IF l.str[l.i + 2] = "n"
         THEN [l EXCEPT !.result = Append(@, LF), !.i = @ + 2]
         ELSE IF l.str[l.i + 2] = "t"
         THEN [l EXCEPT !.result = Append(@, TAB), !.i = @ + 2]
         ELSE IF l.str[l.i + 2] = "r"
         THEN [l EXCEPT !.result = Append(@, CR), !.i = @ + 2]
         ELSE IF l.str[l.i + 2] \in l.allowedEscapes
         THEN [l EXCEPT !.result = Append(@, l.str[l.i + 2]), !.i = @ + 2]
         ELSE [l EXCEPT !.result = Append(@, l.str[l.i + 1])]
    ELSE [l EXCEPT !.result = Append(@, l.str[l.i + 1]), !.i = @ + 1]

\* Mutant: a custom escape keeps its backslash
UnescapeBodyKeepsCustom(l) ==
    IF l.str[l.i + 1] = BS /\ l.i + 1 < Len(l.str)
    THEN IF l.str[l.i + 2] = BS
         THEN [l EXCEPT !.result = Append(@, BS), !.i = @ + 2]
         ELSE IF l.str[l.i + 2] = "n"
         THEN [l EXCEPT !.result = Append(@, LF), !.i = @ + 2]
         ELSE IF l.str[l.i + 2] = "t"
         THEN [l EXCEPT !.result = Append(@, TAB), !.i = @ + 2]
         ELSE IF l.str[l.i + 2] = "r"
         THEN [l EXCEPT !.result = Append(@, CR), !.i = @ + 2]
         ELSE [l EXCEPT !.result = Append(@, l.str[l.i + 1]), !.i = @ + 1]
    ELSE [l EXCEPT !.result = Append(@, l.str[l.i + 1]), !.i = @ + 1]

\* One iteration of the loop of unescapeString
UnescapeBody(l) ==
    IF l.str[l.i + 1] = BS /\ l.i + 1 < Len(l.str)
    THEN IF l.str[l.i + 2] = BS
         THEN [l EXCEPT !.result = Append(@, BS), !.i = @ + 2]
         ELSE IF l.str[l.i + 2] = "n"
         THEN [l EXCEPT !.result = Append(@, LF), !.i = @ + 2]
         ELSE IF l.str[l.i + 2] = "t"
         THEN [l EXCEPT !.result = Append(@, TAB), !.i = @ + 2]
         ELSE IF l.str[l.i + 2] = "r"
         THEN [l EXCEPT !.result = Append(@, CR), !.i = @ + 2]
         ELSE IF l.str[l.i + 2] \in l.allowedEscapes
         THEN [l EXCEPT !.result = Append(@, l.str[l.i + 2]), !.i = @ + 2]
         ELSE [l EXCEPT !.result = Append(@, l.str[l.i + 1]), !.i = @ + 1]
    ELSE [l EXCEPT !.result = Append(@, l.str[l.i + 1]), !.i = @ + 1]

\* One iteration of the splitting loop of parseGachaPrompt
ParseSplitBody(l) ==
    IF l.str[l.i + 1] = BS /\ l.i + 1 < Len(l.str)
    THEN IF l.str[l.i + 2] = CM \/ l.str[l.i + 2] = LB \/ l.str[l.i + 2] = RB
         THEN [l EXCEPT !.currentItem = Append(@, l.str[l.i + 2]), !.i = @ + 2]
         ELSE [l EXCEPT !.currentItem = Append(@, l.str[l.i + 1]), !.i = @ + 1]
    ELSE IF l.str[l.i + 1] = CM
    THEN [l EXCEPT !.items = Append(@, l.currentItem), !.currentItem = <<>>, !.i = @ + 1]
    ELSE [l EXCEPT !.currentItem = Append(@, l.str[l.i + 1]), !.i = @ + 1]

\* One iteration of the splitting loop of previewGachaPrompt
PreviewSplitBody(l) ==
    IF l.str[l.i + 1] = BS /\ l.i + 1 < Len(l.str)
    THEN IF l.str[l.i + 2] = CM \/ l.str[l.i + 2] = LB \/ l.str[l.i + 2] = RB
         THEN [l EXCEPT !.currentItem = Append(@, l.str[l.i + 2]), !.i = @ + 2]
         ELSE IF l.str[l.i + 2] = BS \/ l.str[l.i + 2] = "n"
                 \/ l.str[l.i + 2] = "t" \/ l.str[l.i + 2] = "r"
         THEN [l EXCEPT !.currentItem = @ \o <<l.str[l.i + 1], l.str[l.i + 2]>>,
                        !.i = @ + 2]
         ELSE [l EXCEPT !.currentItem = Append(@, l.str[l.i + 1]), !.i = @ + 1]
    ELSE IF l.str[l.i + 1] = CM
    THEN [l EXCEPT !.items = Append(@, l.currentItem), !.currentItem = <<>>, !.i = @ + 1]
    ELSE [l EXCEPT !.currentItem = Append(@, l.str[l.i + 1]), !.i = @ + 1]

\* What the code does after the loop: unescapeString returns result, the
\* callbacks add the last item when it is not empty
AfterLoop(l) ==
    IF l.fn = "unescapeString" THEN [l EXCEPT !.returned = TRUE]
    ELSE [l EXCEPT !.returned = TRUE,
                   !.items = IF Len(l.currentItem) > 0 THEN Append(@, l.currentItem) ELSE @]

\* The strings the callbacks of a match give to unescapeString: the
\* separator, and each raw item trimmed
SeparatorArguments(matches) ==
    {matches[k].separator : k \in {j \in 1 .. Len(matches) : matches[j].hasSeparator}}

TrimmedItems(items) == {Trim(items[k]) : k \in 1 .. Len(items)}

ItemArguments(matches) ==
    UNION {TrimmedItems(ParseSplit(matches[k].content))
           \cup TrimmedItems(PreviewSplit(matches[k].content)) : k \in 1 .. Len(matches)}

\* A callback enters its splitting loop with the content of a match
SplitEntered(matches) ==
    \E k \in 1 .. Len(matches) : \E fn \in {"parseGachaPrompt", "previewGachaPrompt"} :
        loop' = Entered(fn, matches[k].content, {})

SplitStart ==
    /\ loop = Idle
    /\ SplitEntered(gachaPattern(promptText))
    /\ UNCHANGED <<promptText, previewResult, previewCalls, parseResult, parseCalls,
                   randomCalls, previewCount, lastCall, appVars>>

\* A callback calls unescapeString, with a separator or with a trimmed item
UnescapeEntered(matches) ==
    \/ \E str \in SeparatorArguments(matches) :
          loop' = Entered("unescapeString", str, SeparatorEscapes)
    \/ \E str \in ItemArguments(matches) :
          loop' = Entered("unescapeString", str, ItemEscapes)

UnescapeStart ==
    /\ loop = Idle
    /\ UnescapeEntered(gachaPattern(promptText))
    /\ UNCHANGED <<promptText, previewResult, previewCalls, parseResult, parseCalls,
                   randomCalls, previewCount, lastCall, appVars>>

\* while (i < str.length) { ... }
Iterating(fn) == loop.fn = fn /\ ~loop.returned /\ loop.i < Len(loop.str)

UnescapeStep ==
    /\ Iterating("unescapeString")
    /\ loop' = UnescapeBody(loop)
    /\ UNCHANGED <<promptText, previewResult, previewCalls, parseResult, parseCalls,
                   randomCalls, previewCount, lastCall, appVars>>

ParseSplitStep ==
    /\ Iterating("parseGachaPrompt")
    /\ loop' = ParseSplitBody(loop)
    /\ UNCHANGED <<promptText, previewResult, previewCalls, parseResult, parseCalls,
                   randomCalls, previewCount, lastCall, appVars>>

PreviewSplitStep ==
    /\ Iterating("previewGachaPrompt")
    /\ loop' = PreviewSplitBody(loop)
    /\ UNCHANGED <<promptText, previewResult, previewCalls, parseResult, parseCalls,
                   randomCalls, previewCount, lastCall, appVars>>

\* The condition of the while fails
LoopReturn ==
    /\ loop # Idle
    /\ ~loop.returned
    /\ ~(loop.i < Len(loop.str))
    /\ loop' = AfterLoop(loop)
    /\ UNCHANGED <<promptText, previewResult, previewCalls, parseResult, parseCalls,
                   randomCalls, previewCount, lastCall, appVars>>

\* The texts the loops are reached with: tokens of every content and of
\* every quoted separator, and texts without a token
ScanPrompts ==
    {Token(c, <<"2">>, <<>>) : c \in StringsOf(ContentChars \cup {SP}, MaxScanLen)}
    \cup QuotedTokens \cup Malformed
    \cup {<<BS>>, <<LB, LB, BS>>, <<LB, LB, "a", BS, "x", RB, RB, LP, "1", RP, BS>>}

InitLoops ==
    /\ promptText \in ScanPrompts
    /\ previewResult = NotCalled
    /\ previewCalls = <<>>
    /\ parseResult = NotCalled
    /\ parseCalls = <<>>
    /\ randomCalls = 0
    /\ previewCount = 0
    /\ lastCall = "none"
    /\ loop = Idle
    /\ history = <<>>
    /\ batchCount = <<"1">>
    /\ batchCalls = 0
    /\ NothingGenerated

RunLoop == UnescapeStep \/ ParseSplitStep \/ PreviewSplitStep \/ LoopReturn

NextLoops == SplitStart \/ UnescapeStart \/ RunLoop

\* The code is synchronous: a loop that was entered runs on
SpecLoops == InitLoops /\ [][NextLoops]_vars /\ WF_vars(RunLoop)

----------------------------------------------------------------------------
(* The application (App.tsx): the prompt field, the batch count field and  *)
(* the image cards; handleGenerate, the generation of the cards and        *)
(* restoreParametersFromImage                                              *)

MaxBatch == 2     \* largest number written in the batch count field
MaxHistory == 2   \* handleGenerate is called while the cards fit in so many

\* Prompt texts of the field: plain, blank, and gacha notation that expands
\* to another text, to the empty text, or to itself
AppPrompts ==
    { <<"a">>, <<SP>>,
      Token(<<"a", CM, "b">>, <<"1">>, <<>>),
      Token(<<"a", CM, "b">>, <<"0">>, <<>>),
      Token(<<SP>>, <<"1">>, <<>>) }

\* The field takes the empty text and digits (onChange of the batch count input)
BatchCounts == {<<>>} \cup {c \in CountStrs : parseInt(c) <= MaxBatch}

\* const count = parseInt(batchCount.trim() || '1', 10);
\* const totalBatchSize = isNaN(count) || count < 1 ? 1 : count;
totalBatchSize(text) ==
    IF Len(Trim(text)) = 0 THEN 1
    ELSE IF parseInt(Trim(text)) < 1 THEN 1
    ELSE parseInt(Trim(text))

\* Mutant: the original text is never recorded
RequestPromptResolvedOnly(text, processedPrompt) == [text |-> processedPrompt]

\* metadata.request.prompt: { text: processedPrompt,
\*                            ...(promptText !== processedPrompt && { original: promptText }) }
RequestPrompt(text, processedPrompt) ==
    IF text # processedPrompt
    THEN [text |-> processedPrompt, original |-> text]
    ELSE [text |-> processedPrompt]

\* The card of index i.  Date.now() is modelled by the number of cards made
\* before; createdFrom is no field of the code, it keeps the prompt text
\* handleGenerate was called with.
NewImage(baseTimestamp, i, text, processedPrompt) ==
    [id |-> <<baseTimestamp, i>>, url |-> "", prompt |-> processedPrompt,
     isGenerating |-> TRUE,
     metadata |-> [request |-> [prompt |-> RequestPrompt(text, processedPrompt)]],
     createdFrom |-> text]

\* newImages after the sort by batch index, the larger index first
NewImages(baseTimestamp, n, text, processedPrompt) ==
    [k \in 1 .. n |-> NewImage(baseTimestamp, n - k, text, processedPrompt)]

\* The cards made so far, in every project
CardsMade == Len(server["default"]) + Len(server["p1"])

\* From parseGachaPrompt(promptText) on: the one call, the cards, their
\* metadata on the server (createMetadataOnServer), the history.
\* Math.random() is called by the shuffles and once for the id of each card.
GenerateReturns(calls, drawn, n) ==
    /\ parseResult' = Replace(promptText, calls)
    /\ parseCalls' = calls
    /\ randomCalls' = randomCalls + drawn + n
    /\ batchCalls' = 1
    /\ history' = NewImages(CardsMade, n, promptText, Replace(promptText, calls))
                  \o history
    /\ server' = [server EXCEPT ![currentProjectId] =
                     NewImages(CardsMade, n, promptText, Replace(promptText, calls))
                     \o @]
    /\ effectDue' = TRUE
    /\ lastCall' = "handleGenerate"
    /\ UNCHANGED <<promptText, previewResult, previewCalls, previewCount, loop,
                   batchCount, currentProjectId, generatingImagesRef, generations,
                   loads>>

GenerateDraws(matches, counts, n) ==
    \E draws \in DrawsOf(counts, 1) :
        GenerateReturns(ParseCallsOf(matches, draws), RandomCallsOf(counts, 1), n)

GenerateMatches(matches, n) == GenerateDraws(matches, CandidateCounts(matches), n)

\* if (!promptText.trim()) { toast(...); return; }
GenerateRefused ==
    /\ Len(Trim(promptText)) = 0
    /\ lastCall' = "handleGenerate"
    /\ batchCalls' = 0
    /\ UNCHANGED <<promptText, previewResult, previewCalls, parseResult, parseCalls,
                   randomCalls, previewCount, loop, history, batchCount, genVars>>

handleGenerate ==
    \/ GenerateRefused
    \/ /\ Len(Trim(promptText)) > 0
       /\ CardsMade + totalBatchSize(batchCount) <= MaxHistory
       /\ GenerateMatches(gachaPattern(promptText), totalBatchSize(batchCount))

\* The generation of a card ends: the image is stored and the metadata gets
\* the response, its request kept (success), or the card shows the error
ImageGenerated(img) ==
    [img EXCEPT !.url = "image", !.isGenerating = FALSE,
                !.metadata = [request |-> img.metadata.request, response |-> "response"]]

ImageFailed(img) == [img EXCEPT !.url = "", !.isGenerating = FALSE]

\* prev.map((img) => img.id === image.id ? {...img, url, isGenerating: false,
\*                                           generationTime, metadata} : img)
SetGenerated(images, id) ==
    [k \in 1 .. Len(images) |-> IF images[k].id = id THEN ImageGenerated(images[k])
                                ELSE images[k]]

\* prev.map((img) => img.id === image.id ? {...img, isGenerating: false, url: ''} : img)
SetFailed(images, id) ==
    [k \in 1 .. Len(images) |-> IF images[k].id = id THEN ImageFailed(images[k])
                                ELSE images[k]]

\* The generation of a card from its start to its end, in one step
generateImagesForCards ==
    /\ \E k \in 1 .. Len(history) :
          /\ history[k].isGenerating
          /\ \/ /\ history' = SetGenerated(history, history[k].id)
                /\ server' = [server EXCEPT ![currentProjectId] =
                                 SetGenerated(@, history[k].id)]
             \/ /\ history' = SetFailed(history, history[k].id)
                /\ UNCHANGED server
    /\ effectDue' = TRUE
    /\ UNCHANGED <<promptText, previewResult, previewCalls, parseResult, parseCalls,
                   randomCalls, previewCount, lastCall, loop, batchCount, batchCalls,
                   currentProjectId, generatingImagesRef, generations, loads>>

\* const promptTextToRestore = request.prompt.original || request.prompt.text || '';
promptTextToRestore(requestPrompt) ==
    IF "original" \in DOMAIN requestPrompt /\ Len(requestPrompt.original) > 0
    THEN requestPrompt.original
    ELSE IF Len(requestPrompt.text) > 0 THEN requestPrompt.text
    ELSE <<>>

\* The restore button of card k
restoreParametersFromImage(k) ==
    /\ k \in 1 .. Len(history)
    /\ promptText' = promptTextToRestore(history[k].metadata.request.prompt)
    /\ lastCall' = "restoreParametersFromImage"
    /\ UNCHANGED <<previewResult, previewCalls, parseResult, parseCalls, randomCalls,
                   previewCount, loop, history, batchCount, batchCalls, genVars>>

RestoreParameters == \E k \in 1 .. Len(history) : restoreParametersFromImage(k)

\* The author types in the prompt field
setPromptText ==
    /\ promptText' \in AppPrompts \ {promptText}
    /\ lastCall' = "setPromptText"
    /\ UNCHANGED <<previewResult, previewCalls, parseResult, parseCalls, randomCalls,
                   previewCount, loop, history, batchCount, batchCalls, genVars>>

\* The author types in the batch count field
setBatchCount ==
    /\ batchCount' \in BatchCounts \ {batchCount}
    /\ lastCall' = "setBatchCount"
    /\ UNCHANGED <<promptText, previewResult, previewCalls, parseResult, parseCalls,
                   randomCalls, previewCount, loop, history, batchCalls, genVars>>

InitApp ==
    /\ promptText \in AppPrompts
    /\ previewResult = NotCalled
    /\ previewCalls = <<>>
    /\ parseResult = NotCalled
    /\ parseCalls = <<>>
    /\ randomCalls = 0
    /\ previewCount = 0
    /\ lastCall = "none"
    /\ loop = Idle
    /\ history = <<>>
    /\ batchCount = <<"1">>
    /\ batchCalls = 0
    /\ NothingGenerated

NextApp ==
    \/ handleGenerate
    \/ generateImagesForCards
    \/ RestoreParameters
    \/ setPromptText
    \/ setBatchCount

SpecApp == InitApp /\ [][NextApp]_vars

----------------------------------------------------------------------------
(* unescapeString called with every string and with each of the two sets   *)
(* of allowed escapes the callbacks pass                                   *)

MaxStrLen == 3       \* characters of the strings unescapeString is called with
MaxLiteralLen == 2   \* characters of a literal that is written with escapes

UnescapeChars == {"a", "n", "t", "r", BS, CM, LP, SQ, LF}

\* allowedEscapes of the two calls: ['{', '}', ','] and ['(', ')', "'", '"']
AllowedSets == {ItemEscapes, SeparatorEscapes}

LiteralChars == {"a", "n", BS, LF, TAB, CR, CM, LP}

Literals == StringsOf(LiteralChars, MaxLiteralLen)

\* A literal written with the escapes the module comment documents: \\ for a
\* backslash, \n \t \r, and a backslash before a character of the allowed set
RECURSIVE Encode(_, _)
Encode(literal, allowedEscapes) ==
    IF literal = <<>> THEN <<>>
    ELSE (IF Head(literal) = BS THEN <<BS, BS>>
          ELSE IF Head(literal) = LF THEN <<BS, "n">>
          ELSE IF Head(literal) = TAB THEN <<BS, "t">>
          ELSE IF Head(literal) = CR THEN <<BS, "r">>
          ELSE IF Head(literal) \in allowedEscapes THEN <<BS, Head(literal)>>
          ELSE <<Head(literal)>>)
         \o Encode(Tail(literal), allowedEscapes)

UnescapeStrings(allowedEscapes) ==
    StringsOf(UnescapeChars, MaxStrLen)
    \cup {Encode(t, allowedEscapes) : t \in Literals}

\* unescapeString(str, allowedEscapes) is called
UnescapeCall ==
    /\ loop = Idle
    /\ \E allowedEscapes \in AllowedSets : \E str \in UnescapeStrings(allowedEscapes) :
          loop' = Entered("unescapeString", str, allowedEscapes)
    /\ UNCHANGED <<promptText, previewResult, previewCalls, parseResult, parseCalls,
                   randomCalls, previewCount, lastCall, appVars>>

InitUnescape ==
    /\ promptText = <<>>
    /\ previewResult = NotCalled
    /\ previewCalls = <<>>
    /\ parseResult = NotCalled
    /\ parseCalls = <<>>
    /\ randomCalls = 0
    /\ previewCount = 0
    /\ lastCall = "none"
    /\ loop = Idle
    /\ history = <<>>
    /\ batchCount = <<"1">>
    /\ batchCalls = 0
    /\ NothingGenerated

NextUnescape == UnescapeCall \/ UnescapeStep \/ LoopReturn

SpecUnescape == InitUnescape /\ [][NextUnescape]_vars

----------------------------------------------------------------------------
(* Prompts whose items begin and end with white space, written as it is   *)
(* or as an escape                                                         *)

MaxTrimLen == 3   \* characters of a content with white space

TrimChars == {"a", "n", SP, TAB, LF, CR, FF, BS, CM}

TrimPrompts == {Token(c, <<"2">>, <<>>) : c \in StringsOf(TrimChars, MaxTrimLen)}

InitTrim ==
    /\ promptText \in TrimPrompts
    /\ previewResult = NotCalled
    /\ previewCalls = <<>>
    /\ parseResult = NotCalled
    /\ parseCalls = <<>>
    /\ randomCalls = 0
    /\ previewCount = 0
    /\ lastCall = "none"
    /\ loop = Idle
    /\ history = <<>>
    /\ batchCount = <<"1">>
    /\ batchCalls = 0
    /\ NothingGenerated

SpecTrim == InitTrim /\ [][Next]_vars

----------------------------------------------------------------------------
(* Prompts put together from pieces: tokens inside a block, tokens whose   *)
(* items decode to braces and parentheses, blocks without a count          *)

MaxPieces == 3   \* pieces a prompt is put together from

OuterOpen == <<LB, LB, "x", CM>>                              \* {{x,
OuterClose == <<RB, RB, LP, "1", RP>>                         \* }}(1)
PlainToken == Token(<<"a", CM, "b">>, <<"1">>, <<>>)          \* {{a,b}}(1)
CountToken == Token(<<LP, "1", RP>>, <<"1">>, <<>>)           \* {{(1)}}(1)
PlainBlock == <<LB, LB, "a", RB, RB>>                         \* {{a}}
EmptyBlock == <<LB, LB, SP, RB, RB>>                          \* {{ }}
\* {{\{\{a\}\}(1)}}(1)
TokenItem == Token(<<BS, LB, BS, LB, "a", BS, RB, BS, RB, LP, "1", RP>>, <<"1">>, <<>>)
OpenItem == Token(<<BS, LB, BS, LB, "a">>, <<"1">>, <<>>)     \* {{\{\{a}}(1)

PromptPieces ==
    { OuterOpen, OuterClose, PlainToken, CountToken, EmptyBlock, OpenItem }

RECURSIVE PiecedPrompts(_)
PiecedPrompts(n) ==
    IF n = 0 THEN {<<>>}
    ELSE PiecedPrompts(n - 1)
         \cup {t \o piece : t \in PiecedPrompts(n - 1), piece \in PromptPieces}

\* The prompts of up to MaxPieces pieces, and the token whose item decodes
\* to a token, alone, before and after other text
PiecePrompts ==
    PiecedPrompts(MaxPieces)
    \cup {TokenItem, TokenItem \o OuterClose, PlainToken \o TokenItem}

InitPieces ==
    /\ promptText \in PiecePrompts
    /\ previewResult = NotCalled
    /\ previewCalls = <<>>
    /\ parseResult = NotCalled
    /\ parseCalls = <<>>
    /\ randomCalls = 0
    /\ previewCount = 0
    /\ lastCall = "none"
    /\ loop = Idle
    /\ history = <<>>
    /\ batchCount = <<"1">>
    /\ batchCalls = 0
    /\ NothingGenerated

SpecPieces == InitPieces /\ [][Next]_vars

----------------------------------------------------------------------------
(* The generation effect: the background generations of the cards that    *)
(* are marked isGenerating, one step for each await                        *)

MaxGenerations == 2   \* background generations started in a run

\* Mutant: the cards are not looked up in generatingImagesRef
ToGenerateUnguarded(img) == img.isGenerating

\* img => img.isGenerating && !generatingImagesRef.current.has(img.id)
ToGenerate(img) == img.isGenerating /\ img.id \notin generatingImagesRef

\* const generatingImages = history.filter(...)
generatingImages == SelectSeq(history, ToGenerate)

\* The background generations the loop starts, each with the project id of
\* the render: generateImage is called before the first await
Started(images, projectId) ==
    [k \in 1 .. Len(images) |->
        [id |-> images[k].id, projectId |-> projectId, at |-> "generateImage"]]

\* The effect runs after a render in which one of its dependencies changed
generationEffect ==
    /\ effectDue
    /\ Len(generations) + Len(generatingImages) <= MaxGenerations
    /\ generatingImagesRef' =
          generatingImagesRef \cup {generatingImages[k].id : k \in DOMAIN generatingImages}
    /\ generations' = generations \o Started(generatingImages, currentProjectId)
    /\ effectDue' = FALSE
    /\ UNCHANGED <<promptText, previewResult, previewCalls, parseResult, parseCalls,
                   randomCalls, previewCount, lastCall, loop, history, batchCount,
                   batchCalls, currentProjectId, server, loads>>

\* await generateImage(...) returns: updateImageOnServer is called
generateImageReturns ==
    /\ \E c \in DOMAIN generations :
          /\ generations[c].at = "generateImage"
          /\ generations' = [generations EXCEPT ![c].at = "updateImageOnServer"]
    /\ UNCHANGED <<promptText, previewResult, previewCalls, parseResult, parseCalls,
                   randomCalls, previewCount, lastCall, loop, history, batchCount,
                   batchCalls, currentProjectId, server, generatingImagesRef, loads,
                   effectDue>>

\* await generateImage(...) throws: the catch block, then the finally block
generateImageThrows ==
    /\ \E c \in DOMAIN generations :
          /\ generations[c].at = "generateImage"
          /\ history' = SetFailed(history, generations[c].id)
          /\ generatingImagesRef' = generatingImagesRef \ {generations[c].id}
          /\ generations' = [generations EXCEPT ![c].at = "thrown"]
    /\ effectDue' = TRUE
    /\ UNCHANGED <<promptText, previewResult, previewCalls, parseResult, parseCalls,
                   randomCalls, previewCount, lastCall, loop, batchCount, batchCalls,
                   currentProjectId, server, loads>>

\* The server stores the card in the project
Stored(id, projectId) == \E k \in DOMAIN server[projectId] : server[projectId][k].id = id

\* await updateImageOnServer(...) returns { success: true }: the server has
\* stored the image, the card gets it, then the finally block
updateImageOnServerSucceeds ==
    /\ \E c \in DOMAIN generations :
          /\ generations[c].at = "updateImageOnServer"
          /\ Stored(generations[c].id, generations[c].projectId)
          /\ server' = [server EXCEPT ![generations[c].projectId] =
                           SetGenerated(@, generations[c].id)]
          /\ history' = SetGenerated(history, generations[c].id)
          /\ generatingImagesRef' = generatingImagesRef \ {generations[c].id}
          /\ generations' = [generations EXCEPT ![c].at = "stored"]
    /\ effectDue' = TRUE
    /\ UNCHANGED <<promptText, previewResult, previewCalls, parseResult, parseCalls,
                   randomCalls, previewCount, lastCall, loop, batchCount, batchCalls,
                   currentProjectId, loads>>

\* await updateImageOnServer(...) returns { success: false }: the history is
\* not set, then the finally block
updateImageOnServerFails ==
    /\ \E c \in DOMAIN generations :
          /\ generations[c].at = "updateImageOnServer"
          /\ generatingImagesRef' = generatingImagesRef \ {generations[c].id}
          /\ generations' = [generations EXCEPT ![c].at = "not stored"]
    /\ UNCHANGED <<promptText, previewResult, previewCalls, parseResult, parseCalls,
                   randomCalls, previewCount, lastCall, loop, history, batchCount,
                   batchCalls, currentProjectId, server, loads, effectDue>>

\* The author chooses another project, when the images of the project before
\* are loaded: the effects of currentProjectId run
setCurrentProjectId ==
    /\ loads = {}
    /\ \E p \in Projects \ {currentProjectId} :
          /\ currentProjectId' = p
          /\ loads' = loads \cup {[projectId |-> p, fetched |-> FALSE, images |-> <<>>]}
    /\ effectDue' = TRUE
    /\ UNCHANGED <<promptText, previewResult, previewCalls, parseResult, parseCalls,
                   randomCalls, previewCount, lastCall, loop, history, batchCount,
                   batchCalls, server, generatingImagesRef, generations>>

\* const isGenerating = file.isGenerating === true || !imageUrl;
Fetched(images) ==
    [k \in 1 .. Len(images) |->
        [images[k] EXCEPT !.isGenerating = (images[k].isGenerating \/ images[k].url = "")]]

\* The server answers fetchGeneratedImages(currentProjectId)
fetchGeneratedImages ==
    /\ \E l \in loads :
          /\ ~l.fetched
          /\ loads' = (loads \ {l})
                      \cup {[l EXCEPT !.fetched = TRUE, !.images = Fetched(server[l.projectId])]}
    /\ UNCHANGED <<promptText, previewResult, previewCalls, parseResult, parseCalls,
                   randomCalls, previewCount, lastCall, loop, history, batchCount,
                   batchCalls, currentProjectId, server, generatingImagesRef,
                   generations, effectDue>>

\* const images = await fetchGeneratedImages(currentProjectId); setHistory(images);
loadImages ==
    /\ \E l \in loads :
          /\ l.fetched
          /\ history' = l.images
          /\ loads' = loads \ {l}
    /\ effectDue' = TRUE
    /\ UNCHANGED <<promptText, previewResult, previewCalls, parseResult, parseCalls,
                   randomCalls, previewCount, lastCall, loop, batchCount, batchCalls,
                   currentProjectId, server, generatingImagesRef, generations>>

\* The author adds or removes a reference image
setRefImages ==
    /\ effectDue' = TRUE
    /\ UNCHANGED <<promptText, previewResult, previewCalls, parseResult, parseCalls,
                   randomCalls, previewCount, lastCall, loop, history, batchCount,
                   batchCalls, currentProjectId, server, generatingImagesRef,
                   generations, loads>>

\* The application is mounted: the images of the default project are being
\* loaded and the generation effect is about to run
InitGeneration ==
    /\ promptText \in {<<"a">>, <<SP>>}
    /\ previewResult = NotCalled
    /\ previewCalls = <<>>
    /\ parseResult = NotCalled
    /\ parseCalls = <<>>
    /\ randomCalls = 0
    /\ previewCount = 0
    /\ lastCall = "none"
    /\ loop = Idle
    /\ history = <<>>
    /\ batchCount \in {<<"1">>, <<"2">>}
    /\ batchCalls = 0
    /\ currentProjectId = "default"
    /\ server = [p \in Projects |-> <<>>]
    /\ generatingImagesRef = {}
    /\ generations = <<>>
    /\ loads = {[projectId |-> "default", fetched |-> FALSE, images |-> <<>>]}
    /\ effectDue = TRUE

NextGeneration ==
    \/ handleGenerate
    \/ generationEffect
    \/ generateImageReturns
    \/ generateImageThrows
    \/ updateImageOnServerSucceeds
    \/ updateImageOnServerFails
    \/ setCurrentProjectId
    \/ fetchGeneratedImages
    \/ loadImages
    \/ setRefImages

SpecGeneration == InitGeneration /\ [][NextGeneration]_vars

----------------------------------------------------------------------------
(* Properties *)

Injective(f) == \A i, j \in DOMAIN f : i # j => f[i] # f[j]

\* selected[i] is taken from position f[i] of items, no position twice
TakenFromDistinctPositions(selected, items) ==
    \E f \in [1 .. Len(selected) -> 1 .. Len(items)] :
        /\ Injective(f)
        /\ \A i \in 1 .. Len(selected) : selected[i] = items[f[i]]

\* C1: whatever the draws, a token of parseGachaPrompt that has candidates, at
\* least `count` of them, is replaced by exactly `count` items that are taken
\* from pairwise distinct positions of the candidate list; when the candidates
\* are pairwise distinct no item is repeated in the replacement.
C1_ExpandSelectsDistinct ==
    \A k \in 1 .. Len(parseCalls) :
        LET c == parseCalls[k]
            n == Len(c.processedItems)
        IN  (n >= 1 /\ n >= c.count) =>
              /\ Len(c.selected) = c.count
              /\ TakenFromDistinctPositions(c.selected, c.processedItems)
              /\ Injective(c.processedItems) => Injective(c.selected)
              /\ c.out = Join(c.selected, c.joinSeparator)

\* C1 witness: two of three candidates were selected, not in declaration order
C1_Witness ==
    \E k \in 1 .. Len(parseCalls) :
        /\ Len(parseCalls[k].processedItems) = 3
        /\ parseCalls[k].count = 2
        /\ parseCalls[k].selected # SubSeq(parseCalls[k].processedItems, 1, 2)
        /\ parseCalls[k].out # parseCalls[k].match

\* C2: whatever the draws, the items that replace a token of parseGachaPrompt
\* with candidates, at most `count` of them, are a permutation of the whole
\* candidate list: as many items as candidates, each taken from its own position.
C2_ExpandPermutesAll ==
    \A k \in 1 .. Len(parseCalls) :
        LET c == parseCalls[k]
            n == Len(c.processedItems)
        IN  (n >= 1 /\ c.count >= 1 /\ n <= c.count) =>
              /\ Len(c.selected) = n
              /\ TakenFromDistinctPositions(c.selected, c.processedItems)
              /\ TakenFromDistinctPositions(c.processedItems, c.selected)
              /\ c.out = Join(c.selected, c.joinSeparator)

\* C2 witness: all three candidates of a token with a larger count were
\* placed, in another order than declared
C2_Witness ==
    \E k \in 1 .. Len(parseCalls) :
        /\ Len(parseCalls[k].processedItems) = 3
        /\ parseCalls[k].count > 3
        /\ parseCalls[k].selected # parseCalls[k].processedItems
        /\ parseCalls[k].out # parseCalls[k].match

\* C3: a previewGachaPrompt call never draws from the random source, and it
\* returns what the previous call returned for the text, whatever
\* parseGachaPrompt calls were made in between.
C3_PreviewDeterministic ==
    [][lastCall' = "preview" =>
          /\ randomCalls' = randomCalls
          /\ previewResult # NotCalled => previewResult' = previewResult]_vars

\* C3 witness: the second preview, made after parseGachaPrompt drew from the
\* random source and selected otherwise than the preview
C3_Witness ==
    /\ lastCall = "preview"
    /\ previewCount = 2
    /\ randomCalls > 0
    /\ parseResult # NotCalled
    /\ parseResult # previewResult
    /\ previewResult # promptText

\* C4: previewGachaPrompt replaces a token that has candidates by the first
\* min(count, len) candidates in declaration order, joined by the separator
\* of the token; {{a,b,c}}(2, ", ") gives a, b.
C4_PreviewTakesFirst ==
    /\ \A k \in 1 .. Len(previewCalls) :
          LET c == previewCalls[k]
              n == Len(c.processedItems)
          IN  n >= 1 =>
                /\ Len(c.selected) = Min(c.count, n)
                /\ \A i \in 1 .. Len(c.selected) : c.selected[i] = c.processedItems[i]
                /\ c.out = Join(c.selected, c.joinSeparator)
    /\ (/\ previewResult # NotCalled
        /\ promptText = <<LB, LB, "a", CM, "b", CM, "c", RB, RB,
                          LP, "2", CM, SP, DQ, CM, SP, DQ, RP>>)
          => previewResult = <<"a", CM, SP, "b">>

\* C4 witness: the preview of {{a,b,c}}(2, ", ")
C4_Witness ==
    /\ Len(previewCalls) = 1
    /\ previewCalls[1].processedItems = <<<<"a">>, <<"b">>, <<"c">>>>
    /\ previewCalls[1].count = 2
    /\ previewResult = <<"a", CM, SP, "b">>

\* The grammar \{\{CONTENT\}\}\(COUNT(,\s*['"]SEP['"])?\) stated without a
\* matching order: a brace of CONTENT and a quote of SEP follow a backslash
EscapedRun(str, a, b, special) ==
    \A i \in a .. b : str[i] \in special => (i > a /\ str[i - 1] = BS)

GrammarSeparatorAt(str, d) ==
    \E q \in d + 1 .. Len(str) : \E r \in q + 1 .. Len(str) :
        /\ \A i \in d + 1 .. q - 1 : str[i] \in WhiteSpaceChars
        /\ str[q] \in QuoteChars
        /\ EscapedRun(str, q + 1, r - 1, QuoteChars)
        /\ str[r] \in QuoteChars
        /\ At(str, r + 1) = RP

GrammarAt(str, s) ==
    /\ At(str, s) = LB /\ At(str, s + 1) = LB
    /\ \E e \in s + 2 .. Len(str) :
          /\ EscapedRun(str, s + 2, e - 1, BraceChars)
          /\ At(str, e) = RB /\ At(str, e + 1) = RB /\ At(str, e + 2) = LP
          /\ \E d \in e + 4 .. Len(str) :
                /\ \A i \in e + 3 .. d - 1 : str[i] \in DigitChars
                /\ \/ str[d] = RP
                   \/ str[d] = CM /\ GrammarSeparatorAt(str, d)

GrammarOccurs(str) == \E s \in 1 .. Len(str) : GrammarAt(str, s)

AllCalls == {parseCalls[k] : k \in 1 .. Len(parseCalls)}
            \cup {previewCalls[k] : k \in 1 .. Len(previewCalls)}

\* C6: both functions replace a token that has a candidate and count 0 by
\* the empty string; {{a,b}}(0) gives the empty string.
C6_CountZeroGivesEmpty ==
    /\ \A c \in AllCalls :
          (Len(c.processedItems) >= 1 /\ c.count = 0) => (c.out = <<>> /\ c.out # c.match)
    /\ promptText = <<LB, LB, "a", CM, "b", RB, RB, LP, "0", RP>>
          => (parseResult \in {NotCalled, <<>>} /\ previewResult \in {NotCalled, <<>>})

\* C6 witness: {{a,b}}(0) went through both functions
C6_Witness ==
    /\ promptText = <<LB, LB, "a", CM, "b", RB, RB, LP, "0", RP>>
    /\ parseResult = <<>>
    /\ previewResult = <<>>

\* A content of white space and commas alone
BlankContent(content) ==
    \A i \in 1 .. Len(content) : content[i] \in WhiteSpaceChars \cup {CM}

\* The text is one token and nothing else
SingleToken(calls) ==
    Len(calls) = 1 /\ calls[1].start = 1 /\ calls[1].end = Len(promptText) + 1

\* C7: both functions leave the matched text of a token unchanged when its
\* content gives no item that is non-empty after trimming and unescaping
\* (empty, white space or commas alone), whatever the count, with or without
\* a separator.
C7_NoItemsKeepsToken ==
    /\ \A c \in AllCalls :
          /\ BlankContent(c.content) => Len(c.processedItems) = 0
          /\ Len(c.processedItems) = 0 => c.out = c.match
    /\ (SingleToken(parseCalls) /\ Len(parseCalls[1].processedItems) = 0)
          => parseResult = promptText
    /\ (SingleToken(previewCalls) /\ Len(previewCalls[1].processedItems) = 0)
          => previewResult = promptText

\* C7 witness: {{ ,<LF>}}(0, ", ") went through both functions
C7_Witness ==
    /\ promptText = Token(<<SP, CM, LF>>, <<"0">>, <<CM, SP, DQ, CM, SP, DQ>>)
    /\ Len(parseCalls) = 1 /\ Len(previewCalls) = 1
    /\ parseCalls[1].count = 0 /\ parseCalls[1].hasSeparator
    /\ parseResult = promptText
    /\ previewResult = promptText

\* By how much the replacements of the tokens that end at or before
\* position i move the text that follows them
RECURSIVE ShiftFrom(_, _, _)
ShiftFrom(calls, i, k) ==
    IF k > Len(calls) THEN 0
    ELSE (IF calls[k].end <= i
          THEN Len(calls[k].out) - (calls[k].end - calls[k].start) ELSE 0)
         + ShiftFrom(calls, i, k + 1)

Shift(calls, i) == ShiftFrom(calls, i, 1)

InSpan(calls, i) == \E k \in 1 .. Len(calls) : calls[k].start <= i /\ i < calls[k].end

\* The spans are in text order and do not overlap; the characters outside
\* them are kept, each moved by the replacements before it; every
\* replacement stands where its token stood; every position at which the
\* grammar occurs lies in a replaced span
FrameKept(text, calls, result) ==
    /\ \A k \in 1 .. Len(calls) :
          /\ 1 <= calls[k].start /\ calls[k].start < calls[k].end
          /\ calls[k].end <= Len(text) + 1
          /\ SubSeq(text, calls[k].start, calls[k].end - 1) = calls[k].match
          /\ k > 1 => calls[k - 1].end <= calls[k].start
          /\ SubSeq(result, calls[k].start + Shift(calls, calls[k].start),
                    calls[k].start + Shift(calls, calls[k].start) + Len(calls[k].out) - 1)
                = calls[k].out
    /\ Len(result) = Len(text) + Shift(calls, Len(text) + 1)
    /\ \A i \in 1 .. Len(text) :
          ~InSpan(calls, i) => result[i + Shift(calls, i)] = text[i]
    /\ \A s \in 1 .. Len(text) : GrammarAt(text, s) => InSpan(calls, s)

\* C8: in the result of both functions the characters outside the matched
\* tokens are unchanged and in their order, the tokens are replaced left to
\* right without overlap, and a token that follows a malformed block is
\* replaced all the same.
C8_FrameKept ==
    /\ parseResult # NotCalled => FrameKept(promptText, parseCalls, parseResult)
    /\ previewResult # NotCalled => FrameKept(promptText, previewCalls, previewResult)

\* C8 witness: {{a}}{{a,b}}(1): the block {{a}} is kept and the token replaced
C8_Witness ==
    /\ promptText = <<LB, LB, "a", RB, RB>> \o Token(<<"a", CM, "b">>, <<"1">>, <<>>)
    /\ parseResult = <<LB, LB, "a", RB, RB, "b">>
    /\ previewResult = <<LB, LB, "a", RB, RB, "a">>

RECURSIVE SumLen(_, _)
SumLen(arr, k) == IF k = 0 THEN 0 ELSE Len(arr[k]) + SumLen(arr, k - 1)

\* Position of item i in the items interleaved with the separator
ItemOffset(arr, sep, i) == 1 + SumLen(arr, i - 1) + (i - 1) * Len(sep)

\* out is the items with one separator between two neighbours, none before
\* the first and none after the last
Interleaved(out, arr, sep) ==
    /\ Len(out) = SumLen(arr, Len(arr)) + (Len(arr) - 1) * Len(sep)
    /\ \A i \in 1 .. Len(arr) :
          /\ SubSeq(out, ItemOffset(arr, sep, i),
                    ItemOffset(arr, sep, i) + Len(arr[i]) - 1) = arr[i]
          /\ i < Len(arr) =>
                SubSeq(out, ItemOffset(arr, sep, i) + Len(arr[i]),
                       ItemOffset(arr, sep, i + 1) - 1) = sep

\* C9: the replacement parseGachaPrompt gives for a token with
\* k = min(count, len) >= 1 is k selected items with k - 1 separators
\* between them, none leading, none trailing.
C9_ExpandInterleaves ==
    \A k \in 1 .. Len(parseCalls) :
        LET c == parseCalls[k]
            n == Len(c.processedItems)
        IN  Min(c.count, n) >= 1 =>
              /\ Len(c.selected) = Min(c.count, n)
              /\ Interleaved(c.out, c.selected, c.joinSeparator)

\* C9 witness: three items joined by the two characters of ", "
C9_Witness ==
    \E k \in 1 .. Len(parseCalls) :
        /\ Len(parseCalls[k].selected) = 3
        /\ parseCalls[k].joinSeparator = <<CM, SP>>
        /\ Len(parseCalls[k].out) = 7
        /\ parseResult = parseCalls[k].out

EndsWith(str, suffix) ==
    /\ Len(str) >= Len(suffix)
    /\ SubSeq(str, Len(str) - Len(suffix) + 1, Len(str)) = suffix

\* The separator of the token the text ends with
LastSeparatorIs(calls, sep) ==
    Len(calls) > 0 =>
        (calls[Len(calls)].hasSeparator /\ calls[Len(calls)].joinSeparator = sep)

SeparatorsOfText(calls) ==
    /\ EndsWith(promptText, <<CM, DQ, DQ, RP>>) => LastSeparatorIs(calls, <<>>)
    /\ EndsWith(promptText, <<CM, SQ, BS, "n", SQ, RP>>) => LastSeparatorIs(calls, <<LF>>)
    /\ EndsWith(promptText, <<CM, SP, DQ, CM, SP, DQ, RP>>)
          => LastSeparatorIs(calls, <<CM, SP>>)
    /\ EndsWith(promptText, <<CM, SP, DQ, BS, RP, BS, DQ, "n", DQ, RP>>)
          => LastSeparatorIs(calls, <<RP, DQ, "n">>)

\* C10: the items of a token are joined by one space when the token gives no
\* separator, and else by the quoted body decoded by unescapeString with the
\* escapes ( ) ' ": '\n' joins with a line feed, "" joins with nothing.
C10_SeparatorResolved ==
    /\ \A c \in AllCalls :
          /\ ~c.hasSeparator => c.joinSeparator = <<SP>>
          /\ c.hasSeparator => c.joinSeparator = unescapeString(c.separator, {LP, RP, SQ, DQ})
          /\ Len(c.processedItems) >= 1 => c.out = Join(c.selected, c.joinSeparator)
    /\ SeparatorsOfText(parseCalls)
    /\ SeparatorsOfText(previewCalls)

\* C10 witness: {{a,b}}(2,"") previewed, the items joined with nothing
C10_Witness ==
    /\ promptText = Token(<<"a", CM, "b">>, <<"2">>, <<CM, DQ, DQ>>)
    /\ previewResult = <<"a", "b">>
    /\ Len(parseCalls) = 1
    /\ Len(parseCalls[1].out) = 2

\* The character at position i is written after a backslash that is not
\* itself escaped
RECURSIVE EscapedAt(_, _)
EscapedAt(str, i) == i > 1 /\ str[i - 1] = BS /\ ~EscapedAt(str, i - 1)

\* The content cut at its unescaped commas, an escaped comma cutting nothing
RECURSIVE PiecesFrom(_, _, _)
PiecesFrom(content, i, from) ==
    IF i > Len(content) THEN <<Slice(content, from, Len(content))>>
    ELSE IF content[i] = CM /\ ~EscapedAt(content, i)
    THEN <<Slice(content, from, i - 1)>> \o PiecesFrom(content, i + 1, i + 1)
    ELSE PiecesFrom(content, i + 1, from)

Pieces(content) == PiecesFrom(content, 1, 1)

\* The brace that closes the content of the call is not an escaped one
ClosedByUnescapedBrace(c) == ~EscapedAt(c.content \o <<RB>>, Len(c.content) + 1)

\* C11: in both functions the content of a token does not end at an escaped
\* brace, and its candidates are the pieces between the unescaped commas of
\* the content, each trimmed and with \, \{ \} decoded to the character alone
\* (an escaped comma never splits, every unescaped comma does).
C11_EscapesKeepItems ==
    \A c \in AllCalls :
        /\ ClosedByUnescapedBrace(c)
        /\ c.processedItems = processedItems(Pieces(c.content))

\* The items in the order f, joined by spaces
JoinedInOrder(items, f) == Join([k \in 1 .. Len(items) |-> items[f[k]]], <<SP>>)

\* C12: the token written for a list of intended items (backslash, comma and
\* braces escaped, the items joined by commas, a count not below their
\* number) is replaced by previewGachaPrompt with the intended items in
\* declaration order joined by spaces, and by parseGachaPrompt with the
\* intended items in some order joined by spaces.
C12_EscapeRoundTrip ==
    \A items \in IntendedLists :
        promptText = Written(items) =>
            /\ previewResult \in {NotCalled, Join(items, <<SP>>)}
            /\ \/ parseResult = NotCalled
               \/ \E f \in [1 .. Len(items) -> 1 .. Len(items)] :
                     Injective(f) /\ parseResult = JoinedInOrder(items, f)

\* No backslash, and no white space inside an item: between two characters
\* of the content that are neither white space nor commas there is white
\* space only if there is a comma
LaidOut(content) ==
    /\ \A i \in 1 .. Len(content) : content[i] # BS
    /\ \A i, k \in 1 .. Len(content) :
          (/\ i < k
           /\ content[i] \notin WhiteSpaceChars \cup {CM}
           /\ content[k] \notin WhiteSpaceChars \cup {CM}
           /\ \E j \in i + 1 .. k - 1 : content[j] \in WhiteSpaceChars)
          => \E j \in i + 1 .. k - 1 : content[j] = CM

\* The runs of characters that are neither white space nor commas
RECURSIVE PlainItemsFrom(_, _, _)
PlainItemsFrom(content, i, item) ==
    IF i > Len(content) THEN (IF Len(item) > 0 THEN <<item>> ELSE <<>>)
    ELSE IF content[i] \in WhiteSpaceChars \cup {CM}
    THEN (IF Len(item) > 0 THEN <<item>> ELSE <<>>) \o PlainItemsFrom(content, i + 1, <<>>)
    ELSE PlainItemsFrom(content, i + 1, Append(item, content[i]))

PlainItems(content) == PlainItemsFrom(content, 1, <<>>)

\* The content written on one line: the items and one comma between two
SingleLine(content) == Join(PlainItems(content), <<CM>>)

\* C13: white space, tabs and line breaks before and after the items, and
\* empty items, do not change the candidates: both functions compute for a
\* content written over several lines the items in their order, the same
\* list they compute for the content written on one line; the multi-line
\* example has the candidates AAA, BBB, CCC of {{AAA,BBB,CCC}}(2).
C13_LayoutKeepsCandidates ==
    /\ \A k \in 1 .. Len(parseCalls) :
          LaidOut(parseCalls[k].content) =>
              /\ parseCalls[k].processedItems = PlainItems(parseCalls[k].content)
              /\ parseCalls[k].processedItems
                    = processedItems(ParseSplit(SingleLine(parseCalls[k].content)))
    /\ \A k \in 1 .. Len(previewCalls) :
          LaidOut(previewCalls[k].content) =>
              /\ previewCalls[k].processedItems = PlainItems(previewCalls[k].content)
              /\ previewCalls[k].processedItems
                    = processedItems(PreviewSplit(SingleLine(previewCalls[k].content)))
    /\ promptText \in {MultiLineExample, HelpDialogExample, SingleLineExample} =>
          \A c \in AllCalls :
              c.processedItems = <<<<"A", "A", "A">>, <<"B", "B", "B">>, <<"C", "C", "C">>>>

\* C13 witness: the multi-line example went through both functions, which
\* found the three candidates
C13_Witness ==
    /\ promptText = MultiLineExample
    /\ previewResult = <<"A", "A", "A", SP, "B", "B", "B">>
    /\ Len(parseCalls) = 1
    /\ Len(parseCalls[1].processedItems) = 3
    /\ Len(parseCalls[1].selected) = 2

\* A JavaScript string: a sequence of characters
IsString(v) == DOMAIN v = 1 .. Len(v) /\ \A k \in 1 .. Len(v) : v[k] \in STRING

\* Both functions return a string for the text, whatever the draws
ReturnsString(text, matches) ==
    /\ IsString(previewGachaPrompt(text))
    /\ \A draws \in DrawsOf(CandidateCounts(matches), 1) :
          IsString(parseGachaPrompt(text, draws))

\* What the loop that has returned gave is what the callbacks use
LoopResult ==
    (loop # Idle /\ loop.returned) =>
        /\ loop.fn = "unescapeString" =>
              loop.result = unescapeString(loop.str, loop.allowedEscapes)
        /\ loop.fn = "parseGachaPrompt" => loop.items = ParseSplit(loop.str)
        /\ loop.fn = "previewGachaPrompt" => loop.items = PreviewSplit(loop.str)

\* An iteration: the loop was entered before the step and has not returned after it
Iteration == loop # Idle /\ loop' # loop /\ ~loop'.returned

\* C14: for every text (unbalanced braces, a trailing lone backslash, unknown
\* escapes, the empty text) both functions return a string; every iteration
\* of the loop of unescapeString and of the two splitting loops advances the
\* index by at least one and not beyond the end of the string; and every
\* loop that is entered returns.
C14_Total ==
    /\ [](ReturnsString(promptText, gachaPattern(promptText)) /\ LoopResult)
    /\ [][Iteration => (loop'.i >= loop.i + 1 /\ loop'.i <= Len(loop.str))]_vars
    /\ (loop # Idle) ~> (loop # Idle /\ loop.returned)

\* C14 witness: unescapeString has returned \a\ as it is, an unknown escape
\* and a trailing lone backslash
C14_Witness ==
    /\ loop # Idle
    /\ loop.fn = "unescapeString"
    /\ loop.returned
    /\ loop.str = <<BS, "a", BS>>
    /\ loop.i = 3
    /\ loop.result = <<BS, "a", BS>>

\* The cards handleGenerate made last: those with the id prefix of the first card
NewestBatch == {k \in 1 .. Len(history) : history[k].id[1] = history[1].id[1]}

\* C15: a generation with batch count N executes the gacha notation once for
\* each of its N image cards: after handleGenerate has made cards, the number
\* of parseGachaPrompt calls it made is the number of cards of that batch.
C15_ExecutedPerImage ==
    history # <<>> => batchCalls = Cardinality(NewestBatch)

\* What the code does instead: the cards of one batch all carry the one
\* resolved prompt
C15_OneResolvedPromptPerBatch ==
    \A j \in NewestBatch : \A k \in NewestBatch :
        /\ history[j].prompt = history[k].prompt
        /\ history[j].metadata.request.prompt = history[k].metadata.request.prompt

\* The metadata of a card records the authored prompt P: text is the resolved
\* prompt, and original is there, and is P, exactly when the two differ
RecordsAuthored(img) ==
    /\ Len(Trim(img.createdFrom)) > 0
    /\ img.metadata.request.prompt.text = img.prompt
    /\ ("original" \in DOMAIN img.metadata.request.prompt) <=> (img.prompt # img.createdFrom)
    /\ ("original" \in DOMAIN img.metadata.request.prompt)
           => img.metadata.request.prompt.original = img.createdFrom

\* C16: every card records the prompt text P it was created from (original = P
\* exactly when the resolved prompt differs from P), and
\* restoreParametersFromImage on a card sets the prompt text to exactly P.
C16_RestoreReturnsAuthored ==
    /\ [](\A k \in 1 .. Len(history) : RecordsAuthored(history[k]))
    /\ [][\A k \in 1 .. Len(history) :
             restoreParametersFromImage(k) => promptText' = history[k].createdFrom]_vars

\* The prompt field held another text, the card of {{a,b}}(1) resolved to b was
\* restored after its image was generated, and the field holds {{a,b}}(1) again
C16_Witness ==
    /\ lastCall = "restoreParametersFromImage"
    /\ Len(history) = 2
    /\ history[1].createdFrom = <<"a">>
    /\ "original" \notin DOMAIN history[1].metadata.request.prompt
    /\ history[2].prompt = <<"b">>
    /\ ~history[2].isGenerating
    /\ history[2].metadata.request.prompt.original = Token(<<"a", CM, "b">>, <<"1">>, <<>>)
    /\ promptText = Token(<<"a", CM, "b">>, <<"1">>, <<>>)

\* The draws with which every shuffle of a parseGachaPrompt call leaves the
\* declaration order in place: j = i in each iteration
InPlace(counts) == [k \in 1 .. Len(counts) |-> [i \in 1 .. counts[k] - 1 |-> i]]

\* C17: previewGachaPrompt(text) is the result of parseGachaPrompt(text) whose
\* shuffles leave the declaration order in place, and for every token the two
\* functions compute the same candidate list and the same separator.
C17_SameCandidates ==
    /\ previewResult # NotCalled =>
          previewResult = parseGachaPrompt(promptText,
                              InPlace(CandidateCounts(gachaPattern(promptText))))
    /\ (previewResult # NotCalled /\ parseResult # NotCalled) =>
          /\ Len(previewCalls) = Len(parseCalls)
          /\ \A k \in 1 .. Len(previewCalls) :
                /\ previewCalls[k].processedItems = parseCalls[k].processedItems
                /\ previewCalls[k].joinSeparator = parseCalls[k].joinSeparator

\* The first brace of the closing }} of the call c in the prompt
ClosingAt(c) == c.start + 2 + Len(c.content)

\* C18: the token matcher treats no escaped brace as a delimiter: the }} that
\* closes a matched token does not begin with an escaped brace, the {{ that
\* opens it does not begin with one, and {{a\}}(2), which has no other
\* closing braces, is returned unchanged by both functions.
C18_EscapedBraceNoDelimiter ==
    /\ \A c \in AllCalls :
          /\ ~EscapedAt(promptText, ClosingAt(c))
          /\ ~EscapedAt(promptText, c.start)
    /\ promptText = Token(<<"a", BS>>, <<"2">>, <<>>) =>
          /\ previewResult \in {NotCalled, promptText}
          /\ parseResult \in {NotCalled, promptText}

\* The quotes around the separator of the call c in the prompt
ClosingQuoteAt(c) == c.end - 2
OpeningQuoteAt(c) == c.end - 3 - Len(c.separator)

\* The tokens whose separator opens with one quote and closes with the other
MixedQuoteTokens ==
    {Token(<<"a", CM, "n">>, <<"2">>, <<CM, q[1]>> \o body \o <<q[2]>>) :
        q \in {<<SQ, DQ>>, <<DQ, SQ>>},
        body \in StringsOf(SeparatorChars, MaxSeparatorLen)}

\* C19: a token is matched with a separator only when the quote that closes
\* the separator is the character that opened it and is not an escaped
\* quote; a token whose separator opens with one quote and closes with the
\* other is left untouched by both functions.
C19_SeparatorQuoted ==
    /\ \A c \in AllCalls : c.hasSeparator =>
          /\ promptText[ClosingQuoteAt(c)] = promptText[OpeningQuoteAt(c)]
          /\ ~EscapedAt(promptText, ClosingQuoteAt(c))
    /\ promptText \in MixedQuoteTokens =>
          /\ previewResult \in {NotCalled, promptText}
          /\ parseResult \in {NotCalled, promptText}

\* The splitter that keeps an escaped comma or brace raw: on a backslash
\* followed by , { or } both characters are appended and the scan advances
\* two; an unescaped comma closes the item; otherwise one character is
\* appended; a non-empty last item is added
RECURSIVE KeepRawSplitFrom(_, _, _, _)
KeepRawSplitFrom(content, i, items, currentItem) ==
    IF i > Len(content)
    THEN (IF Len(currentItem) > 0 THEN Append(items, currentItem) ELSE items)
    ELSE IF content[i] = BS /\ i + 1 <= Len(content) /\ content[i + 1] \in ItemEscapes
    THEN KeepRawSplitFrom(content, i + 2, items,
                          currentItem \o <<content[i], content[i + 1]>>)
    ELSE IF content[i] = CM
    THEN KeepRawSplitFrom(content, i + 1, Append(items, currentItem), <<>>)
    ELSE KeepRawSplitFrom(content, i + 1, items, Append(currentItem, content[i]))

KeepRawSplit(content) == KeepRawSplitFrom(content, 1, <<>>, <<>>)

\* C20: for every token content the candidate list of parseGachaPrompt and of
\* previewGachaPrompt is the list of the splitter that keeps escaped commas
\* and braces raw, its items trimmed, unescaped with { } , allowed, and the
\* empty ones dropped.
C20_CandidatesOfKeepRawSplit ==
    \A c \in AllCalls : c.processedItems = processedItems(KeepRawSplit(c.content))

\* The decoder read from left to right: \\ is a backslash, \n \t \r are line
\* feed, tab and carriage return, a backslash before an allowed character is
\* that character, any other backslash is itself and the character after it
\* an ordinary one
RECURSIVE Decoded(_, _)
Decoded(s, allowed) ==
    IF s = <<>> THEN <<>>
    ELSE IF Head(s) # BS THEN <<Head(s)>> \o Decoded(Tail(s), allowed)
    ELSE IF Len(s) = 1 THEN <<BS>>
    ELSE IF s[2] = BS THEN <<BS>> \o Decoded(Tail(Tail(s)), allowed)
    ELSE IF s[2] = "n" THEN <<LF>> \o Decoded(Tail(Tail(s)), allowed)
    ELSE IF s[2] = "t" THEN <<TAB>> \o Decoded(Tail(Tail(s)), allowed)
    ELSE IF s[2] = "r" THEN <<CR>> \o Decoded(Tail(Tail(s)), allowed)
    ELSE IF s[2] \in allowed THEN <<s[2]>> \o Decoded(Tail(Tail(s)), allowed)
    ELSE <<BS, s[2]>> \o Decoded(Tail(Tail(s)), allowed)

UnescapeReturned == loop # Idle /\ loop.fn = "unescapeString" /\ loop.returned

\* C21: what unescapeString returns for a string and a set of allowed
\* escapes is what the left-to-right decoder gives for them, whether the
\* loop is run or the function is applied as the callbacks apply it.
C21_UnescapeIsDecoder ==
    UnescapeReturned =>
        /\ loop.result = Decoded(loop.str, loop.allowedEscapes)
        /\ unescapeString(loop.str, loop.allowedEscapes)
              = Decoded(loop.str, loop.allowedEscapes)

\* unescapeString returned \,\ as it is, ( ) ' " being allowed: the comma is
\* no escape there and keeps its backslash, the last backslash ends the string
C21_Witness ==
    /\ UnescapeReturned
    /\ loop.allowedEscapes = SeparatorEscapes
    /\ loop.str = <<BS, ",", BS>>
    /\ loop.result = <<BS, ",", BS>>

\* C22: a literal written with \\ for a backslash, \n \t \r for line feed,
\* tab and carriage return, and a backslash before each allowed character
\* is what unescapeString returns for the written string.
C22_UnescapeRoundTrip ==
    \A t \in Literals :
        (UnescapeReturned /\ loop.str = Encode(t, loop.allowedEscapes))
            => loop.result = t

\* The literal of a backslash and a comma, written \\\, was returned for the
\* call with { } , allowed
C22_Witness ==
    /\ UnescapeReturned
    /\ loop.allowedEscapes = ItemEscapes
    /\ loop.str = <<BS, BS, BS, CM>>
    /\ loop.result = <<BS, CM>>

\* The item from its first to its last character that is not in chars
Stripped(item, chars) ==
    IF \A i \in 1 .. Len(item) : item[i] \in chars THEN <<>>
    ELSE Slice(item,
               CHOOSE i \in 1 .. Len(item) :
                   item[i] \notin chars /\ \A j \in 1 .. i - 1 : item[j] \in chars,
               CHOOSE i \in 1 .. Len(item) :
                   item[i] \notin chars /\ \A j \in i + 1 .. Len(item) : item[j] \in chars)

NonEmpty(item) == Len(item) > 0

\* The candidates when chars, and nothing else, is removed at the ends of
\* the raw items
ResolvedWith(items, chars) ==
    SelectSeq([k \in 1 .. Len(items) |->
                  unescapeString(Stripped(items[k], chars), ItemEscapes)], NonEmpty)

\* The candidates of every call are those of its raw items stripped of chars
CandidatesStrippedOf(chars) ==
    /\ \A k \in 1 .. Len(parseCalls) :
          parseCalls[k].processedItems
              = ResolvedWith(ParseSplit(parseCalls[k].content), chars)
    /\ \A k \in 1 .. Len(previewCalls) :
          previewCalls[k].processedItems
              = ResolvedWith(PreviewSplit(previewCalls[k].content), chars)

\* C23 as stated: trimming removes only space, tab, line feed and carriage
\* return at the ends of a raw item, every other character there and all
\* white space inside the item is kept.
C23_TrimsFourCharacters == CandidatesStrippedOf({SP, TAB, LF, CR})

\* C23: trimming removes only the white space characters of the class \s
\* (space, tab, line feed, carriage return, and also form feed and the other
\* white space characters) at the ends of a raw item; every other character
\* there and all white space inside the item is kept.
C23_TrimsWhiteSpace == CandidatesStrippedOf(WhiteSpaceChars)

\* Both functions went through {{ a\f}}(2): the form feed at the end is
\* trimmed with the space, the candidate is a
C23_Witness ==
    /\ promptText = Token(<<SP, "a", FF>>, <<"2">>, <<>>)
    /\ previewResult = <<"a">>
    /\ parseResult = <<"a">>

\* The raw items that are not empty when trimmed, each trimmed and then
\* unescaped
TrimmedThenUnescaped(items) ==
    [k \in 1 .. Len(SelectSeq([j \in 1 .. Len(items) |-> Trim(items[j])], NonEmpty)) |->
        unescapeString(SelectSeq([j \in 1 .. Len(items) |-> Trim(items[j])], NonEmpty)[k],
                       ItemEscapes)]

\* C24: the candidates are the trimmed raw items, unescaped after the trim,
\* so white space written as \n \t \r at the ends of an item stays, and an
\* item that is such an escape only is a candidate: {{\n}}(2) is replaced by
\* a line feed in both functions.
C24_TrimThenUnescape ==
    /\ \A k \in 1 .. Len(parseCalls) :
          parseCalls[k].processedItems
              = TrimmedThenUnescaped(ParseSplit(parseCalls[k].content))
    /\ \A k \in 1 .. Len(previewCalls) :
          previewCalls[k].processedItems
              = TrimmedThenUnescaped(PreviewSplit(previewCalls[k].content))
    /\ promptText = Token(<<BS, "n">>, <<"2">>, <<>>) =>
          /\ previewResult \in {NotCalled, <<LF>>}
          /\ parseResult \in {NotCalled, <<LF>>}

\* Both functions replaced {{ \n}}(2) by a line feed: the space was trimmed,
\* the escape decoded after that
C24_Witness ==
    /\ promptText = Token(<<SP, BS, "n">>, <<"2">>, <<>>)
    /\ previewResult = <<LF>>
    /\ parseResult = <<LF>>
    /\ parseCalls[1].processedItems = <<<<LF>>>>

\* The spans of the calls of a function are the spans of the matches of the
\* pattern in the text the function was called with, in their order
CallsOfText(calls, text) ==
    [k \in 1 .. Len(calls) |-> <<calls[k].start, calls[k].end>>]
        = [k \in 1 .. Len(gachaPattern(text)) |->
              <<gachaPattern(text)[k].start, gachaPattern(text)[k].end>>]

\* What the callbacks returned stands in the result as it is, after the text
\* before it, and nothing else was changed
OutsLiteral(text, calls, result) ==
    /\ Len(result) = Len(text) + Shift(calls, Len(text) + 1)
    /\ \A k \in 1 .. Len(calls) :
          SubSeq(result, calls[k].start + Shift(calls, calls[k].start),
                 calls[k].start + Shift(calls, calls[k].start) + Len(calls[k].out) - 1)
              = calls[k].out

\* C25: one call of parseGachaPrompt or previewGachaPrompt invokes its
\* callback for the tokens of the text it was given and for nothing else, and
\* what a callback returned stands in the result as it is, also when it has
\* the form of a token alone ({{\{\{a\}\}(1)}}(1) gives {{a}}(1)) or with the
\* text after it ({{\{\{a}}(1)}}(1) gives {{a}}(1)).
C25_SinglePass ==
    /\ parseResult # NotCalled =>
          /\ CallsOfText(parseCalls, promptText)
          /\ OutsLiteral(promptText, parseCalls, parseResult)
    /\ previewResult # NotCalled =>
          /\ CallsOfText(previewCalls, promptText)
          /\ OutsLiteral(promptText, previewCalls, previewResult)
    /\ promptText \in {TokenItem, OpenItem \o OuterClose} =>
          /\ parseResult \in {NotCalled, PlainBlock \o <<LP, "1", RP>>}
          /\ previewResult \in {NotCalled, PlainBlock \o <<LP, "1", RP>>}

\* Both functions were called with {{\{\{a}}(1)}}(1) and gave {{a}}(1)
C25_Witness ==
    /\ promptText = OpenItem \o OuterClose
    /\ parseResult = PlainBlock \o <<LP, "1", RP>>
    /\ previewResult = PlainBlock \o <<LP, "1", RP>>
    /\ Len(parseCalls) = 1
    /\ Len(previewCalls) = 1

NoTokenWithCandidate(text) ==
    \A k \in 1 .. Len(gachaPattern(text)) :
        PreviewLocals(gachaPattern(text)[k]).processedItems = <<>>

C28_NestedNotMatched ==
    /\ \A c \in AllCalls : \A i \in 1 .. Len(c.content) :
          c.content[i] \in BraceChars => (i > 1 /\ c.content[i - 1] = BS)
    /\ promptText = OuterOpen \o PlainToken \o OuterClose =>
          /\ previewResult \in {NotCalled, OuterOpen \o <<"a">> \o OuterClose}
          /\ parseResult \in {NotCalled, OuterOpen \o <<"a">> \o OuterClose,
                              OuterOpen \o <<"b">> \o OuterClose}
          /\ \A c \in AllCalls : c.match = PlainToken
    /\ promptText = OuterOpen \o CountToken \o OuterClose =>
          /\ previewResult \in {NotCalled, OuterOpen \o <<LP, "1", RP>> \o OuterClose}
          /\ parseResult \in {NotCalled, OuterOpen \o <<LP, "1", RP>> \o OuterClose}

\* {{x,{{a,b}}(1)}}(1) went through both functions, the token inside was
\* replaced by b and by a
C28_Witness ==
    /\ promptText = OuterOpen \o PlainToken \o OuterClose
    /\ parseResult = OuterOpen \o <<"b">> \o OuterClose
    /\ previewResult = OuterOpen \o <<"a">> \o OuterClose

\* The positions 1..n in their order, and in every order
Positions(n) == [i \in 1 .. n |-> i]

Orders(n) == {f \in [1 .. n -> 1 .. n] : \A i, j \in 1 .. n : f[i] = f[j] => i = j}

\* The sequences of draws after which the shuffle of n positions is order
DrawsGiving(n, order) == {d \in ShuffleDraws(n) : shuffleArray(Positions(n), d) = order}

\* For n items: every sequence of draws gives an order of the positions, and
\* every order, the one of the declaration too, comes from one sequence alone
UniformOver(n) ==
    /\ \A d \in ShuffleDraws(n) : shuffleArray(Positions(n), d) \in Orders(n)
    /\ \A order \in Orders(n) : Cardinality(DrawsGiving(n, order)) = 1

\* What the call selected is the beginning of a shuffle of its candidates
SelectedFromShuffle(c) ==
    \E d \in ShuffleDraws(Len(c.processedItems)) :
        c.selected = Slice(shuffleArray(c.processedItems, d), 1,
                           Min(c.count, Len(c.processedItems)))

\* C27: for the candidates of every parseGachaPrompt callback, each sequence
\* of draws (j in 0..i for i = n-1 down to 1) shuffles them to a permutation,
\* each permutation comes from exactly one sequence of draws, what was
\* selected is the beginning of such a shuffle, and the candidates are after
\* the shuffle what they were before.
C27_ShuffleUniform ==
    \A k \in 1 .. Len(parseCalls) :
        Len(parseCalls[k].processedItems) > 0 =>
            /\ UniformOver(Len(parseCalls[k].processedItems))
            /\ SelectedFromShuffle(parseCalls[k])
            /\ parseCalls[k].processedItems
                  = processedItems(ParseSplit(parseCalls[k].content))

\* A call with three candidates and count 3 selected them last first: the
\* draws 0 (for i = 2) and 1 (for i = 1)
C27_Witness ==
    /\ Len(parseCalls) = 1
    /\ parseCalls[1].processedItems = <<<<"a">>, <<"b">>, <<"b">>>>
    /\ parseCalls[1].count = 3
    /\ parseCalls[1].selected = <<<<"b">>, <<"b">>, <<"a">>>>


----------------------------------------------------------------------------
(* The generation effect *)

\* The generateImage calls of a card that have not returned or thrown
InFlight(id) ==
    {c \in DOMAIN generations :
        generations[c].id = id /\ generations[c].at = "generateImage"}

IsGeneratingCard(id) ==
    \E k \in DOMAIN history : history[k].id = id /\ history[k].isGenerating

Finished(c) == generations[c].at \in {"stored", "thrown", "not stored"}

\* C30: a card is generated at most once: when the generateImage call of a
\* card has finished (image stored, error thrown, or server update failed),
\* the card is not marked isGenerating, and no generation is started for its
\* id after that (by C29 an earlier generation of the same id has finished
\* when a later one is started)
C30_GeneratedOnce ==
    /\ \A c \in DOMAIN generations :
          Finished(c) => ~IsGeneratingCard(generations[c].id)
    /\ \A c, d \in DOMAIN generations :
          c < d /\ generations[c].id = generations[d].id => ~Finished(c)

====
